---------------------------- MODULE Spec2Model ----------------------------
(***************************************************************************)
(* A model of the HTTP/1.1 server engine of http-server:                   *)
(*   src/http-server/src/http_server/mod.rs            (parser, router,    *)
(*                                                      connection loop)   *)
(*   src/http-server/src/http_server/http_response.rs  (response writer)   *)
(*   src/http-server/src/http_server/http_header.rs    (header table)      *)
(*                                                                         *)
(* A byte is a one-character string; a byte string (Vec<u8>, String, &str) *)
(* is a sequence of bytes.  The byte 0xFF, which no UTF-8 text contains,   *)
(* is written BYTE_FF.                                                     *)
(***************************************************************************)
EXTENDS Integers, Sequences, FiniteSets, TLC

VARIABLES
    stream,        \* bytes the peer has sent and the server has not read yet
    peer,          \* what the peer put on the stream, or the request a response was
                   \* created for (history, never read by the server)
    parse_out,     \* result of the last parse_request call
    parse_calls,   \* number of parse_request calls made so far
    response,      \* the HttpResponse a handler holds
    socket,        \* the write side of the TcpStream the response is bound to
    calls,         \* the calls made on the response, with their results (history)
    conn,          \* the connection thread: "running" in its loop, "exited" once it
                   \* left the loop (the TcpStream is dropped, the socket closed)
    jobs,          \* the worker_job calls of the connection thread (history)
    server,        \* the HttpServer: its endpoints and its static paths
    routed,        \* the resolutions of a (method, url) by the server's tables (history)
    listener,      \* the accept loop of HttpServer::run: "accepting" while it runs
    threads        \* the connection threads run has spawned, in accept order, each
                   \* with its own socket, stream, loop position and job history

vars == <<stream, peer, parse_out, parse_calls, response, socket, calls, conn, jobs,
          server, routed, listener, threads>>

-----------------------------------------------------------------------------
(* Byte strings *)

CR == "\r"
LF == "\n"
SP == " "
BYTE_FF == "xFF"

CRLF == <<CR, LF>>
DOUBLE_CRLF == <<CR, LF, CR, LF>>
DOUBLE_CRLF_ASCII == <<CR, LF, CR, LF>>

Min(a, b) == IF a < b THEN a ELSE b

\* [u8]::ends_with / str::ends_with
EndsWith(s, suffix) ==
    /\ Len(s) >= Len(suffix)
    /\ SubSeq(s, Len(s) - Len(suffix) + 1, Len(s)) = suffix

\* str::starts_with
StartsWith(s, prefix) ==
    /\ Len(s) >= Len(prefix)
    /\ SubSeq(s, 1, Len(prefix)) = prefix

\* The index of the first occurrence of sep in s, 0 when there is none.
Find(s, sep) ==
    LET hits == {i \in 1..(Len(s) - Len(sep) + 1) : SubSeq(s, i, i + Len(sep) - 1) = sep}
    IN  IF hits = {} THEN 0 ELSE CHOOSE i \in hits : \A j \in hits : i <= j

\* str::split(sep): the pieces between the non-overlapping occurrences of sep,
\* left to right; k occurrences give k + 1 pieces, empty pieces included.
RECURSIVE Split(_, _)
Split(s, sep) ==
    LET i == Find(s, sep)
    IN  IF i = 0 THEN <<s>>
        ELSE <<SubSeq(s, 1, i - 1)>> \o Split(SubSeq(s, i + Len(sep), Len(s)), sep)

\* char::is_whitespace, on the bytes of the model
IsWhitespace(c) == c \in {" ", "\t", "\r", "\n", "\f"}

\* str::trim: whitespace removed at both ends
RECURSIVE TrimStart(_)
TrimStart(s) ==
    IF s # <<>> /\ IsWhitespace(Head(s)) THEN TrimStart(Tail(s)) ELSE s

RECURSIVE TrimEnd(_)
TrimEnd(s) ==
    IF s # <<>> /\ IsWhitespace(s[Len(s)]) THEN TrimEnd(SubSeq(s, 1, Len(s) - 1)) ELSE s

Trim(s) == TrimEnd(TrimStart(s))

UpperCase ==
    <<"A", "B", "C", "D", "E", "F", "G", "H", "I", "J", "K", "L", "M",
      "N", "O", "P", "Q", "R", "S", "T", "U", "V", "W", "X", "Y", "Z">>

LowerCase ==
    <<"a", "b", "c", "d", "e", "f", "g", "h", "i", "j", "k", "l", "m",
      "n", "o", "p", "q", "r", "s", "t", "u", "v", "w", "x", "y", "z">>

\* The lower-case letter of each upper-case ASCII letter.
LowerOf == [c \in {UpperCase[i] : i \in 1..26} |->
               LowerCase[CHOOSE i \in 1..26 : UpperCase[i] = c]]

\* str::to_lowercase
ToLowerChar(c) == IF c \in DOMAIN LowerOf THEN LowerOf[c] ELSE c

ToLower(s) == [i \in 1..Len(s) |-> ToLowerChar(s[i])]

Digits == <<"0", "1", "2", "3", "4", "5", "6", "7", "8", "9">>

IsDigit(c) == \E i \in 1..10 : Digits[i] = c

DigitValue(c) == (CHOOSE i \in 1..10 : Digits[i] = c) - 1

\* String::from_utf8 succeeds
IsUtf8(buf) == \A i \in 1..Len(buf) : buf[i] # BYTE_FF

\* u32::MAX = 4294967295, as decimal digits (the model checker's integers are
\* narrower than u32, so the comparison is made on the digits).
U32_MAX_DIGITS == <<"4", "2", "9", "4", "9", "6", "7", "2", "9", "5">>

\* Stands for every u32 of ten decimal digits: more than any stream of the
\* model holds, so a body of that length is read as any of them would be.
HUGE_U32 == 1000000000

RECURSIVE StripZeros(_)
StripZeros(s) ==
    IF Len(s) > 1 /\ Head(s) = "0" THEN StripZeros(Tail(s)) ELSE s

\* a <= b for two digit strings of the same length
DigitsLeq(a, b) ==
    \/ a = b
    \/ \E i \in 1..Len(a) :
          /\ \A j \in 1..(i - 1) : a[j] = b[j]
          /\ DigitValue(a[i]) < DigitValue(b[i])

RECURSIVE DigitsValue(_, _)
DigitsValue(s, acc) ==
    IF s = <<>> THEN acc ELSE DigitsValue(Tail(s), acc * 10 + DigitValue(Head(s)))

\* x.parse::<u32>().unwrap_or(0): a text that does not parse counts as 0.
ParseU32_ZeroOnError(s) ==
    LET digits == IF s # <<>> /\ Head(s) = "+" THEN Tail(s) ELSE s
        d == StripZeros(digits)
    IN  IF digits = <<>> \/ \E i \in 1..Len(digits) : ~IsDigit(digits[i]) THEN 0
        ELSE IF Len(d) > 10 \/ (Len(d) = 10 /\ ~DigitsLeq(d, U32_MAX_DIGITS)) THEN 0
        ELSE IF Len(d) = 10 THEN HUGE_U32
        ELSE DigitsValue(d, 0)

\* str::parse::<u32>: an optional "+", then one or more decimal digits, the
\* value at most u32::MAX; -1 stands for Err(ParseIntError).
ParseU32(s) ==
    LET digits == IF s # <<>> /\ Head(s) = "+" THEN Tail(s) ELSE s
        d == StripZeros(digits)
    IN  IF digits = <<>> \/ \E i \in 1..Len(digits) : ~IsDigit(digits[i]) THEN -1
        ELSE IF Len(d) > 10 \/ (Len(d) = 10 /\ ~DigitsLeq(d, U32_MAX_DIGITS)) THEN -1
        ELSE IF Len(d) = 10 THEN HUGE_U32
        ELSE DigitsValue(d, 0)

-----------------------------------------------------------------------------
(* HttpHeader (http_header.rs): a map from lower-cased name to value,      *)
(* a function whose domain is the set of names present.                    *)

HeaderNew == [k \in {} |-> <<>>]

HeaderGet(header, name) ==
    IF ToLower(name) \in DOMAIN header THEN header[ToLower(name)] ELSE <<>>

HeaderSet(header, name, value) ==
    [k \in (DOMAIN header) \cup {ToLower(name)} |->
        IF k = ToLower(name) THEN value ELSE header[k]]

\* remove without to_lowercase.
HeaderRemove_ExactCase(header, name) ==
    [k \in (DOMAIN header) \ {name} |-> header[k]]

HeaderRemove(header, name) ==
    [k \in (DOMAIN header) \ {ToLower(name)} |-> header[k]]

-----------------------------------------------------------------------------
(* HttpServer::parse_request (mod.rs)                                      *)

HttpVersion_from_str(version) ==
    IF version = <<"H", "T", "T", "P", "/", "1", ".", "1">> THEN "V1_1"
    ELSE IF version = <<"H", "T", "T", "P", "/", "2">> THEN "V2"
    ELSE "UNKNOWN"

HttpMethod_from_str(method) ==
    IF method = <<"G", "E", "T">> THEN "GET"
    ELSE IF method = <<"P", "O", "S", "T">> THEN "POST"
    ELSE IF method = <<"P", "U", "T">> THEN "PUT"
    ELSE IF method = <<"D", "E", "L", "E", "T", "E">> THEN "DELETE"
    ELSE "UNKNOWN"

S_content_length ==
    <<"c", "o", "n", "t", "e", "n", "t", "-", "l", "e", "n", "g", "t", "h">>

\* The value of a request that was not produced.
NoRequest == [http_version |-> "UNKNOWN", method |-> "UNKNOWN", url |-> <<>>,
              header |-> HeaderNew, body |-> <<>>]

\* The first loop of parse_request: bytes are taken from the socket one at a
\* time until the buffer ends with CR LF CR LF or the stream ends. The loop
\* stops at the first byte after which the buffer ends so: taken is the
\* number of bytes it has read by then.
ReadHeader(rest, header_buf) ==
    LET all == header_buf \o rest
        held == Len(header_buf)
        stops == {n \in 1..Len(rest) :
                     /\ held + n >= Len(DOUBLE_CRLF_ASCII)
                     /\ SubSeq(all, held + n - Len(DOUBLE_CRLF_ASCII) + 1, held + n)
                            = DOUBLE_CRLF_ASCII}
    IN  IF stops = {}
        THEN [header_buf |-> all, header_read |-> FALSE, rest |-> <<>>]
        ELSE LET taken == CHOOSE n \in stops : \A m \in stops : n <= m
             IN  [header_buf |-> SubSeq(all, 1, held + taken), header_read |-> TRUE,
                  rest |-> SubSeq(rest, taken + 1, Len(rest))]

\* The else branch of the line loop, over lines[i..]: a line is split on
\* every ":", each piece trimmed; a line that does not give exactly two
\* pieces is skipped.
RECURSIVE ParseHeaderLines(_, _, _)
ParseHeaderLines(lines, i, header) ==
    IF i > Len(lines) THEN header
    ELSE LET pieces == Split(lines[i], <<":">>)
             field_value == [k \in 1..Len(pieces) |-> Trim(pieces[k])]
         IN  ParseHeaderLines(lines, i + 1,
                 IF Len(field_value) # 2 THEN header
                 ELSE HeaderSet(header, field_value[1], field_value[2]))

\* ReadBody with the countdown tested before the byte is stored: the last
\* byte of the body is left on the stream.
ReadBody_StopsEarly(rest, content_length) ==
    IF content_length > 1
    THEN [body |-> SubSeq(rest, 1, Min(content_length - 1, Len(rest))),
          rest |-> SubSeq(rest, Min(content_length - 1, Len(rest)) + 1, Len(rest))]
    ELSE [body |-> <<>>, rest |-> rest]

\* The second loop of parse_request: content_length bytes, or fewer when the
\* stream ends first (the for loop over socket.bytes() just ends).
ReadBody(rest, content_length) ==
    IF content_length > 0
    THEN [body |-> SubSeq(rest, 1, Min(content_length, Len(rest))),
          rest |-> SubSeq(rest, Min(content_length, Len(rest)) + 1, Len(rest))]
    ELSE [body |-> <<>>, rest |-> rest]

\* The request line split with split_whitespace instead of split(" "): runs
\* of spaces count once and spaces at the ends are dropped.
RequestLineWords_Whitespace(line) ==
    LET pieces == Split(line, <<SP>>)
        kept == {i \in 1..Len(pieces) : pieces[i] # <<>>}
        nth(k) == CHOOSE i \in kept : Cardinality({j \in kept : j <= i}) = k
    IN  [k \in 1..Cardinality(kept) |-> pieces[nth(k)]]

\* line.split(" ").collect()
RequestLineWords(line) == Split(line, <<SP>>)

ParseErr(err, rest) ==
    [kind |-> "Err", err |-> err, request |-> NoRequest, rest |-> rest]

\* parse_request from String::from_utf8 on, h being what the header loop read.
ParseHeader(h) ==
    LET lines == Split(h.header_buf, CRLF)
        words == RequestLineWords(lines[1])
        header == ParseHeaderLines(lines, 2, HeaderNew)
        x == HeaderGet(header, S_content_length)
        content_length == IF x # <<>> THEN ParseU32(x) ELSE 0
        b == ReadBody(h.rest, content_length)
    IN  IF ~IsUtf8(h.header_buf) THEN ParseErr("InvalidUtf8", h.rest)
        ELSE IF Len(words) # 3 THEN ParseErr("MalformedRequestLine", h.rest)
        ELSE IF content_length = -1 THEN ParseErr("InvalidContentLength", h.rest)
        ELSE [kind |-> "Some", err |-> "",
              request |-> [http_version |-> HttpVersion_from_str(words[3]),
                           method |-> HttpMethod_from_str(words[1]),
                           url |-> words[2],
                           header |-> header,
                           body |-> b.body],
              rest |-> b.rest]

\* parse_request without the test of header_buf.len() == 0.
parse_request_EmptyIsError(input) ==
    LET h == ReadHeader(input, <<>>)
    IN  IF ~h.header_read THEN ParseErr("IncompleteHeader", h.rest)
        ELSE ParseHeader(h)

\* parse_request without the test of header_read.
parse_request_NoHeaderReadTest(input) ==
    LET h == ReadHeader(input, <<>>)
    IN  IF Len(h.header_buf) = 0
        THEN [kind |-> "None", err |-> "", request |-> NoRequest, rest |-> h.rest]
        ELSE ParseHeader(h)

\* parse_request on a socket whose unread input is `input`, followed by the
\* end of the stream.  kind is "None" for Ok(None), "Some" for Ok(Some(request)),
\* "Err" for Err(_); rest is what the call left unread.
parse_request(input) ==
    LET h == ReadHeader(input, <<>>)
    IN  IF Len(h.header_buf) = 0
        THEN [kind |-> "None", err |-> "", request |-> NoRequest, rest |-> h.rest]
        ELSE IF ~h.header_read THEN ParseErr("IncompleteHeader", h.rest)
        ELSE ParseHeader(h)

-----------------------------------------------------------------------------
(* The peer: what a client puts on the stream.                             *)

\* usize::to_string / u16::to_string: decimal, no leading zeros
RECURSIVE DecString(_)
DecString(n) ==
    IF n < 10 THEN <<Digits[n + 1]>> ELSE DecString(n \div 10) \o <<Digits[(n % 10) + 1]>>

RECURSIVE Concat(_)
Concat(seqs) ==
    IF seqs = <<>> THEN <<>> ELSE Head(seqs) \o Concat(Tail(seqs))

\* <line> CRLF (<header line> CRLF)* CRLF <body>
RequestBytes(line, headers, body) ==
    line \o CRLF \o Concat([i \in 1..Len(headers) |-> headers[i] \o CRLF]) \o CRLF \o body

PeerLinesGood ==
    { <<"G", "E", "T", " ", "/", " ", "H", "T", "T", "P", "/", "1", ".", "1">>,
      <<"P", "O", "S", "T", " ", "/", "a", " ", "H", "T", "T", "P", "/", "1", ".", "1">> }

PeerLinesBad ==
    { <<"G", "E", "T", " ", "/">>,
      <<"G", "E", "T", " ", " ", "/", " ", "H", "T", "T", "P", "/", "1", ".", "1">>,
      <<"G", "E", "T", " ", "/", " ", "H", "T", "T", "P", "/", "1", ".", "1", " ">>,
      <<>>,
      <<"G", "E", "T", " ", BYTE_FF, " ", "H", "T", "T", "P", "/", "1", ".", "1">>,
      <<BYTE_FF>> }

PeerBodies ==
    { <<>>,
      <<"H", "i">>,
      <<CR, LF, CR, LF, "x">>,
      <<"H", "e", "l", "l", "o", " ", "W", "o", "r", "l", "d", "!">> }

\* Spellings of the Content-Length field name and of the text around the value.
PeerLengthNames ==
    { <<"C", "o", "n", "t", "e", "n", "t", "-", "L", "e", "n", "g", "t", "h", ":", " ">>,
      <<"c", "o", "n", "t", "e", "n", "t", "-", "l", "e", "n", "g", "t", "h", ":">>,
      <<"C", "O", "N", "T", "E", "N", "T", "-", "L", "E", "N", "G", "T", "H", ":", " ", "\t">> }

\* Content-Length values that do not state the length of the body sent.
PeerLengthsOther ==
    { <<"a", "b", "c">>, <<"-", "1">>, <<"9">>, <<"1">>,
      <<"4", "2", "9", "4", "9", "6", "7", "2", "9", "6">> }

\* The Content-Length a request carries: none, the length of the body sent
\* ("exact"), or another text.
PeerLengths ==
    { [kind |-> "none", text |-> <<>>], [kind |-> "exact", text |-> <<>>] }
    \cup { [kind |-> "other", text |-> x] : x \in PeerLengthsOther }

\* Header lines besides Content-Length.
PeerOtherHeaders ==
    { <<>>,
      << <<"C", "o", "n", "n", "e", "c", "t", "i", "o", "n", ":", " ",
           "k", "e", "e", "p", "-", "a", "l", "i", "v", "e">> >>,
      << <<"H", "o", "s", "t", ":", " ", "a", ":", "8", "0">>, <<"X">> >> }

\* A second request sent right after the first one, or nothing.
PeerTails ==
    { <<>>,
      RequestBytes(<<"G", "E", "T", " ", "/", "b", " ", "H", "T", "T", "P", "/", "1", ".", "1">>,
                   <<>>, <<>>) }

\* The peer closes its sending side after the last byte; MaxDrop bounds how
\* many bytes before the end of the request it may close early.
MaxDrop == 4

\* The requests a peer sends: a request line, header lines, a body, and what
\* follows the body.  drop is the
\* number of bytes at the end that the peer never sends.
PeerRequests ==
    { q \in [line : PeerLinesGood \cup PeerLinesBad, others : PeerOtherHeaders,
             name : PeerLengthNames, length : PeerLengths,
             body : PeerBodies, tail : PeerTails, drop : 0..MaxDrop] :
        /\ q.length.kind = "none" =>
              q.name = <<"c", "o", "n", "t", "e", "n", "t", "-", "l", "e", "n", "g", "t", "h", ":">>
        /\ q.drop > 0 => q.tail = <<>> }

PeerHeaders(q) ==
    IF q.length.kind = "none" THEN q.others
    ELSE q.others \o
         << q.name \o (IF q.length.kind = "exact" THEN DecString(Len(q.body))
                                                   ELSE q.length.text) >>

PeerBytes(q) ==
    LET all == RequestBytes(q.line, PeerHeaders(q), q.body \o q.tail)
    IN  SubSeq(all, 1, Len(all) - q.drop)

\* A well-formed request, sent whole, whose Content-Length states the length
\* of its body.
PeerWellFormed(q) ==
    q.line \in PeerLinesGood /\ q.length.kind = "exact" /\ q.drop = 0

-----------------------------------------------------------------------------
(* HttpResponse (http_response.rs).  A response is the struct's fields; the *)
(* socket it writes to is the bytes written so far, whether it has been    *)
(* shut down, and (history) the number of header blocks written to it.     *)
(* A write to a socket that was shut down fails; no other write fails.     *)
(* Every operation gives the set of its possible outcomes                  *)
(* [response, socket, ret], ret being "Ok" or "Err": the order in which    *)
(* send_header walks the HashMap is not fixed.                             *)

IANA_HTTP_RESPONSE_STATUS ==
    << <<200, <<"O", "K">> >>,
       <<301, <<"M", "o", "v", "e", "d", " ", "P", "e", "r", "m", "a", "n", "e", "n", "t", "l", "y">> >>,
       <<302, <<"F", "o", "u", "n", "d">> >>,
       <<304, <<"N", "o", "t", " ", "M", "o", "d", "i", "f", "i", "e", "d">> >>,
       <<400, <<"B", "a", "d", " ", "R", "e", "q", "u", "e", "s", "t">> >>,
       <<401, <<"U", "n", "a", "u", "t", "h", "o", "r", "i", "z", "e", "d">> >>,
       <<403, <<"F", "o", "r", "b", "i", "d", "d", "e", "n">> >>,
       <<404, <<"N", "o", "t", "F", "o", "u", "n", "d">> >>,
       <<500, <<"I", "n", "t", "e", "r", "n", "a", "l", " ", "S", "e", "r", "v", "e", "r", " ", "E", "r", "r", "o", "r">> >>,
       <<502, <<"B", "a", "d", " ", "G", "a", "t", "e", "w", "a", "y">> >>,
       <<503, <<"S", "e", "r", "v", "i", "c", "e", " ", "N", "o", "t", " ", "A", "v", "a", "i", "l", "a", "b", "l", "e">> >>,
       <<505, <<"H", "T", "T", "P", " ", "V", "e", "r", "s", "i", "o", "n", " ", "N", "o", "t", " ", "S", "u", "p", "p", "o", "r", "t", "e", "d">> >> >>

DEFAULT_RESPONSE_STATUS_CODE == IANA_HTTP_RESPONSE_STATUS[1][1]
DEFAULT_RESPONSE_STATUS_REASON == IANA_HTTP_RESPONSE_STATUS[1][2]

S_connection == <<"c", "o", "n", "n", "e", "c", "t", "i", "o", "n">>
S_Connection == <<"C", "o", "n", "n", "e", "c", "t", "i", "o", "n">>
S_keep_alive == <<"k", "e", "e", "p", "-", "a", "l", "i", "v", "e">>
S_close == <<"c", "l", "o", "s", "e">>
S_Transfer_Encoding ==
    <<"T", "r", "a", "n", "s", "f", "e", "r", "-", "E", "n", "c", "o", "d", "i", "n", "g">>
S_chunked == <<"c", "h", "u", "n", "k", "e", "d">>
S_Content_Type == <<"C", "o", "n", "t", "e", "n", "t", "-", "T", "y", "p", "e">>
S_Location == <<"L", "o", "c", "a", "t", "i", "o", "n">>

\* add_default_headers without to_lowercase.
add_default_headers_CaseSensitive(req_header, res_header) ==
    IF HeaderGet(req_header, S_connection) = S_keep_alive
    THEN HeaderSet(res_header, S_Connection, S_keep_alive)
    ELSE HeaderSet(res_header, S_Connection, S_close)

add_default_headers(req_header, res_header) ==
    IF ToLower(HeaderGet(req_header, S_connection)) = S_keep_alive
    THEN HeaderSet(res_header, S_Connection, S_keep_alive)
    ELSE HeaderSet(res_header, S_Connection, S_close)

\* http_response::new(sock, request)
NewResponse(request) ==
    [status |-> [code |-> DEFAULT_RESPONSE_STATUS_CODE,
                 reason |-> DEFAULT_RESPONSE_STATUS_REASON],
     header |-> add_default_headers(request.header, HeaderNew),
     header_sent |-> FALSE,
     chunked_body |-> FALSE,
     body |-> <<>>]

\* A connected sock nothing was written to.
NewSocket == [written |-> <<>>, shutdown |-> FALSE, header_blocks |-> 0]

Outcome(self, sock, ret) == [response |-> self, socket |-> sock, ret |-> ret]

\* sock.write(bytes) on an open sock
SockWrite(sock, bytes) == [sock EXCEPT !.written = @ \o bytes]

\* The orders in which a HashMap with these keys can be iterated.
RECURSIVE Orders(_)
Orders(keys) ==
    IF keys = {} THEN {<<>>}
    ELSE UNION {{<<k>> \o o : o \in Orders(keys \ {k})} : k \in keys}

\* HttpVersion::V1_1.to_str()
S_HTTP_1_1 == <<"H", "T", "T", "P", "/", "1", ".", "1">>

StatusLine(status) ==
    S_HTTP_1_1 \o <<SP>> \o DecString(status.code) \o <<SP>> \o status.reason \o CRLF

HeaderLine(key, value) ==
    IF key # <<>> /\ value # <<>> THEN key \o <<":", " ">> \o value \o CRLF ELSE <<>>

\* send_header that leaves header_sent as it was.
send_header_FlagNotSet(self, sock) ==
    IF sock.shutdown THEN {Outcome(self, sock, "Err")}
    ELSE { Outcome(self,
                   [SockWrite(sock,
                              StatusLine(self.status)
                              \o Concat([i \in 1..Len(order) |->
                                          HeaderLine(order[i], self.header[order[i]])])
                              \o CRLF)
                       EXCEPT !.header_blocks = @ + 1],
                   "Ok") : order \in Orders(DOMAIN self.header) }

send_header(self, sock) ==
    IF sock.shutdown THEN {Outcome(self, sock, "Err")}
    ELSE { Outcome([self EXCEPT !.header_sent = TRUE],
                   [SockWrite(sock,
                              StatusLine(self.status)
                              \o Concat([i \in 1..Len(order) |->
                                          HeaderLine(order[i], self.header[order[i]])])
                              \o CRLF)
                       EXCEPT !.header_blocks = @ + 1],
                   "Ok") : order \in Orders(DOMAIN self.header) }

HexDigits ==
    <<"0", "1", "2", "3", "4", "5", "6", "7", "8", "9", "A", "B", "C", "D", "E", "F">>

\* format!("{:X}", n)
RECURSIVE UpperHex(_)
UpperHex(n) ==
    IF n < 16 THEN <<HexDigits[n + 1]>> ELSE UpperHex(n \div 16) \o <<HexDigits[(n % 16) + 1]>>

\* get_chunk_size formatting with {:x}
get_chunk_size_LowerHex(chunk) == ToLower(UpperHex(Len(chunk)))

get_chunk_size(chunk) == UpperHex(Len(chunk))

\* The reason phrase status() ends with: "unknown", overwritten by each table
\* entry with this code, in table order.
RECURSIVE StatusReason(_, _, _)
StatusReason(code, i, reason) ==
    IF i > Len(IANA_HTTP_RESPONSE_STATUS) THEN reason
    ELSE StatusReason(code, i + 1,
             IF IANA_HTTP_RESPONSE_STATUS[i][1] = code
             THEN IANA_HTTP_RESPONSE_STATUS[i][2] ELSE reason)

status(self, code) ==
    [self EXCEPT !.status = [code |-> code,
                                 reason |-> StatusReason(code, 1, <<"u", "n", "k", "n", "o", "w", "n">>)]]

status_message(self, message) == [self EXCEPT !.status.reason = message]

content_type(self, value) ==
    [self EXCEPT !.header = HeaderSet(@, S_Content_Type, value)]

\* The chunk written without the CRLF that closes it.
WriteChunk_NoClosingCRLF(o, data) ==
    IF o.ret = "Err" THEN o
    ELSE IF o.socket.shutdown THEN [o EXCEPT !.ret = "Err"]
    ELSE [o EXCEPT !.socket = SockWrite(@, get_chunk_size(data) \o CRLF \o data),
                   !.response.chunked_body = TRUE]

\* The part of write after the headers: the chunk, then the chunked_body flag.
WriteChunk(o, data) ==
    IF o.ret = "Err" THEN o
    ELSE IF o.socket.shutdown THEN [o EXCEPT !.ret = "Err"]
    ELSE [o EXCEPT !.socket = SockWrite(@, get_chunk_size(data) \o CRLF \o data \o CRLF),
                   !.response.chunked_body = TRUE]

write(self, sock, data) ==
    LET committed ==
            IF ~self.header_sent
            THEN send_header([self EXCEPT
                                 !.header = HeaderSet(@, S_Transfer_Encoding, S_chunked)],
                             sock)
            ELSE {Outcome(self, sock, "Ok")}
    IN  {WriteChunk(o, data) : o \in committed}

\* shutdown(Both) of a sock that was already shut down succeeds or fails
\* with ENOTCONN, as the state of the connection has it.
end_(o) ==
    IF o.ret = "Err" THEN {o}
    ELSE IF HeaderGet(o.response.header, S_connection) = S_close
    THEN IF o.socket.shutdown
         THEN {o, [o EXCEPT !.ret = "Err"]}
         ELSE {[o EXCEPT !.socket.shutdown = TRUE]}
    ELSE {o}

\* The part of end between the headers and _end: the zero-length chunk.
EndChunk(o) ==
    IF o.ret = "Err" THEN o
    ELSE IF ~o.response.chunked_body THEN o
    ELSE IF o.socket.shutdown THEN [o EXCEPT !.ret = "Err"]
    ELSE [o EXCEPT !.socket = SockWrite(@, <<"0">> \o DOUBLE_CRLF)]

\* end with _end called before the zero-length chunk is written.
end_ShutdownFirst(self, sock) ==
    LET committed ==
            IF ~self.header_sent THEN send_header(self, sock)
            ELSE {Outcome(self, sock, "Ok")}
    IN  {EndChunk(e) : e \in UNION {end_(o) : o \in committed}}

end(self, sock) ==
    LET committed ==
            IF ~self.header_sent THEN send_header(self, sock)
            ELSE {Outcome(self, sock, "Ok")}
    IN  UNION {end_(EndChunk(o)) : o \in committed}

\* The part of send after the headers: the data, as it is.
SendData(o, data) ==
    IF o.ret = "Err" THEN o
    ELSE IF o.socket.shutdown THEN [o EXCEPT !.ret = "Err"]
    ELSE [o EXCEPT !.socket = SockWrite(@, data)]

\* send without the else branch: the data is written whether or not the
\* headers were sent before.
send_NoCheck(self, sock, data) ==
    LET committed ==
            IF ~self.header_sent
            THEN send_header([self EXCEPT
                                 !.header = HeaderSet(@, S_content_length, DecString(Len(data)))],
                             sock)
            ELSE {Outcome(self, sock, "Ok")}
    IN  UNION {end_(SendData(o, data)) : o \in committed}

\* send that keeps a Content-Length the handler has set.
send_KeepsLength(self, sock, data) ==
    IF ~self.header_sent
    THEN UNION {end_(SendData(o, data)) :
                   o \in send_header(
                            [self EXCEPT
                                !.header = IF S_content_length \in DOMAIN @ THEN @
                                           ELSE HeaderSet(@, S_content_length, DecString(Len(data)))],
                            sock)}
    ELSE {Outcome(self, sock, "Err")}

\* send with Content-Length set before header_sent is tested.
send_SetsLengthFirst(self, sock, data) ==
    LET sized == [self EXCEPT !.header = HeaderSet(@, S_content_length, DecString(Len(data)))]
    IN  IF ~self.header_sent
        THEN UNION {end_(SendData(o, data)) : o \in send_header(sized, sock)}
        ELSE {Outcome(sized, sock, "Err")}

send(self, sock, data) ==
    IF ~self.header_sent
    THEN UNION {end_(SendData(o, data)) :
                   o \in send_header(
                            [self EXCEPT
                                !.header = HeaderSet(@, S_content_length, DecString(Len(data)))],
                            sock)}
    ELSE {Outcome(self, sock, "Err")}

redirect(self, sock, location) ==
    end([status(self, 302) EXCEPT !.header = HeaderSet(@, S_Location, location)], sock)

-----------------------------------------------------------------------------
(* The file system the server runs on, as get_static_file, send_file and   *)
(* download see it: a tree of directories and files.  A path is resolved   *)
(* as the operating system resolves it, component by component.            *)

\* The process's working directory.
Cwd == << <<"s", "r", "v">> >>

FileSystem ==
    (<<>> :> [kind |-> "dir", data |-> <<>>])
    @@ (<< <<"s", "r", "v">> >> :> [kind |-> "dir", data |-> <<>>])
    @@ (<< <<"s", "r", "v">>, <<"p", "u", "b", "l", "i", "c">> >> :> [kind |-> "dir", data |-> <<>>])
    @@ (<< <<"s", "r", "v">>, <<"p", "u", "b", "l", "i", "c">>, <<"a", ".", "t", "x", "t">> >> :> [kind |-> "file", data |-> <<"A", "\r", "\n", "\r", "\n">>])
    @@ (<< <<"s", "r", "v">>, <<"p", "u", "b", "l", "i", "c">>, <<"s", "u", "b">> >> :> [kind |-> "dir", data |-> <<>>])
    @@ (<< <<"s", "r", "v">>, <<"s", "e", "c", "r", "e", "t">> >> :> [kind |-> "file", data |-> <<"S">>])
    @@ (<< <<"s", "r", "v">>, <<"t", "e", "s", "t", ".", "j", "s", "o", "n">> >> :> [kind |-> "file", data |-> <<"{", "}">>])

Missing == [found |-> FALSE, at |-> <<>>]

\* The entry the components comps[i..] lead to from the directory `cur`:
\* "", "." stay, ".." goes up, a name goes down; each needs `cur` to be a
\* directory.
RECURSIVE Walk(_, _, _)
Walk(comps, i, cur) ==
    IF i > Len(comps) THEN [found |-> TRUE, at |-> cur]
    ELSE IF FileSystem[cur].kind # "dir" THEN Missing
    ELSE IF comps[i] \in {<<>>, <<".">>} THEN Walk(comps, i + 1, cur)
    ELSE IF comps[i] = <<".", ".">>
         THEN Walk(comps, i + 1, IF cur = <<>> THEN cur ELSE SubSeq(cur, 1, Len(cur) - 1))
    ELSE IF Append(cur, comps[i]) \in DOMAIN FileSystem
         THEN Walk(comps, i + 1, Append(cur, comps[i]))
    ELSE Missing

Resolve(path) ==
    IF path = <<>> THEN Missing
    ELSE Walk(Split(path, <<"/">>), 1, IF Head(path) = "/" THEN <<>> ELSE Cwd)

\* Path::exists
Exists(path) == Resolve(path).found

\* path.metadata()?.is_file()
IsFile(path) == Resolve(path).found /\ FileSystem[Resolve(path).at].kind = "file"

\* PathBuf::push: an absolute path replaces the buffer; otherwise it is
\* appended, after a separator when the buffer does not end with one.
PathPush(buf, path) ==
    IF path # <<>> /\ Head(path) = "/" THEN path
    ELSE IF buf # <<>> /\ buf[Len(buf)] # "/" THEN buf \o <<"/">> \o path
    ELSE buf \o path

\* Path::file_name: the last component
FileName(path) ==
    LET comps == Split(path, <<"/">>) IN comps[Len(comps)]

\* mime_guess::from_path(path).first_or_octet_stream().essence_str(), for
\* the extensions of the model
MimeGuess(path) ==
    LET parts == Split(FileName(path), <<".">>)
        ext == IF Len(parts) < 2 THEN <<>> ELSE ToLower(parts[Len(parts)])
    IN  IF ext = <<"t", "x", "t">> THEN <<"t", "e", "x", "t", "/", "p", "l", "a", "i", "n">>
        ELSE IF ext = <<"j", "s", "o", "n">> THEN <<"a", "p", "p", "l", "i", "c", "a", "t", "i", "o", "n", "/", "j", "s", "o", "n">>
        ELSE IF ext = <<"j", "p", "g">> THEN <<"i", "m", "a", "g", "e", "/", "j", "p", "e", "g">>
        ELSE <<"a", "p", "p", "l", "i", "c", "a", "t", "i", "o", "n", "/", "o", "c", "t", "e", "t", "-", "s", "t", "r", "e", "a", "m">>

\* send_file: the content type is set, then the file is opened and read
\* (either fails for what is not a regular file), then sent.
send_file(self, sock, path) ==
    IF IsFile(path)
    THEN send(content_type(self, MimeGuess(path)), sock, FileSystem[Resolve(path).at].data)
    ELSE {Outcome(content_type(self, MimeGuess(path)), sock, "Err")}

download(self, sock, path) ==
    IF IsFile(path)
    THEN send_file([self EXCEPT !.header =
                       HeaderSet(@, <<"C", "o", "n", "t", "e", "n", "t", "-", "D", "i", "s", "p", "o", "s", "i", "t", "i", "o", "n">>,
                                 <<"a", "t", "t", "a", "c", "h", "m", "e", "n", "t", ";", " ", "f", "i", "l", "e", "n", "a", "m", "e", "=">> \o FileName(path))],
                   sock, path)
    ELSE {Outcome(self, sock, "Err")}

\* json: the value arrives serialized
json(self, sock, data) == send(content_type(self, <<"a", "p", "p", "l", "i", "c", "a", "t", "i", "o", "n", "/", "j", "s", "o", "n">>), sock, data)

-----------------------------------------------------------------------------
(* HttpServer: the registration of endpoints and static paths, the         *)
(* resolution of a request to a handler, and worker_job.                   *)

\* HttpServer::new: no endpoint, no static path
HttpServerNew == [endpoints |-> <<>>, static_paths |-> <<>>]

\* HttpServer::add: the endpoints after one more registration
add(endpoints, url, method, cb) ==
    Append(endpoints, [url |-> url, method |-> method, callback |-> cb])

get(endpoints, url, callback) == add(endpoints, url, "GET", callback)

post(endpoints, url, callback) == add(endpoints, url, "POST", callback)

\* HttpServer::static_path: the prefix is made to end with '/'
static_path(static_paths, prefix, path) ==
    Append(static_paths,
           [prefix |-> IF EndsWith(prefix, <<"/">>) THEN prefix ELSE prefix \o <<"/">>,
            path |-> path])

NoHandler == "none"

\* The callback of the first endpoint with this url, whatever its method.
RECURSIVE get_request_handler_AnyMethod(_, _, _, _)
get_request_handler_AnyMethod(endpoints, i, url, method) ==
    IF i > Len(endpoints) THEN NoHandler
    ELSE IF url = endpoints[i].url THEN endpoints[i].callback
    ELSE get_request_handler_AnyMethod(endpoints, i + 1, url, method)

\* The callback of the first endpoint with this method and this url.
RECURSIVE get_request_handler(_, _, _, _)
get_request_handler(endpoints, i, url, method) ==
    IF i > Len(endpoints) THEN NoHandler
    ELSE IF method = endpoints[i].method /\ url = endpoints[i].url
         THEN endpoints[i].callback
    ELSE get_request_handler(endpoints, i + 1, url, method)

\* The target of the first static path whose prefix starts the url, if it
\* exists.
RECURSIVE get_static_file_FirstPrefix(_, _, _)
get_static_file_FirstPrefix(static_paths, i, url) ==
    IF i > Len(static_paths) THEN [found |-> FALSE, file_path |-> <<>>]
    ELSE LET sp == static_paths[i]
             file_path == PathPush(sp.path, SubSeq(url, Len(sp.prefix) + 1, Len(url)))
         IN  IF StartsWith(url, sp.prefix)
             THEN IF Exists(file_path) THEN [found |-> TRUE, file_path |-> file_path]
                  ELSE [found |-> FALSE, file_path |-> <<>>]
             ELSE get_static_file_FirstPrefix(static_paths, i + 1, url)

\* The target of the first static path whose prefix starts the url and
\* whose target exists.
RECURSIVE get_static_file(_, _, _)
get_static_file(static_paths, i, url) ==
    IF i > Len(static_paths) THEN [found |-> FALSE, file_path |-> <<>>]
    ELSE LET sp == static_paths[i]
             file_path == PathPush(sp.path, SubSeq(url, Len(sp.prefix) + 1, Len(url)))
         IN  IF StartsWith(url, sp.prefix) /\ Exists(file_path)
             THEN [found |-> TRUE, file_path |-> file_path]
             ELSE get_static_file(static_paths, i + 1, url)

\* A write, and an end, that follow earlier steps of a handler: `?` leaves
\* the handler at the first Err.
ThenWrite(outcomes, data) ==
    UNION {IF o.ret = "Err" THEN {o} ELSE write(o.response, o.socket, data) : o \in outcomes}

ThenEnd(outcomes) ==
    UNION {IF o.ret = "Err" THEN {o} ELSE end(o.response, o.socket) : o \in outcomes}

\* The handlers main registers.
handler_root(self, sock) == redirect(self, sock, <<"/", "h", "i">>)

handler_hello_world(self, sock) ==
    ThenEnd(ThenWrite(ThenWrite(write(status(self, 200), sock, <<"H", "e", "l", "l", "o", " ">>), <<"W", "o", "r", "l", "d">>), CRLF))

handler_hello(self, sock) == json(self, sock, <<"{", "\"", "m", "e", "s", "s", "a", "g", "e", "\"", ":", "\"", "H", "e", "l", "l", "o", "\"", "}">>)

handler_hi(self, sock) ==
    send(status(content_type(self, <<"t", "e", "x", "t", "/", "h", "t", "m", "l">>), 200), sock, <<"<", "h", "1", ">", "H", "e", "l", "l", "o", "!", "<", "/", "h", "1", ">">>)

handler_file_json(self, sock) == send_file(self, sock, <<"t", "e", "s", "t", ".", "j", "s", "o", "n">>)

handler_file_image(self, sock) ==
    send_file(self, sock, <<"/", "h", "o", "m", "e", "/", "d", "e", "b", "i", "a", "n", "/", "w", "o", "r", "k", "s", "p", "a", "c", "e", "/", "w", "a", "z", "a", "h", "m", "/", "s", "o", "a", "p", "-", "b", "u", "b", "b", "l", "e", ".", "j", "p", "g">>)

handler_file_octet(self, sock) ==
    send_file(self, sock, <<"/", "h", "o", "m", "e", "/", "d", "e", "b", "i", "a", "n", "/", "w", "o", "r", "k", "s", "p", "a", "c", "e", "/", "w", "a", "z", "a", "h", "m", "/", "s", "o", "a", "p", "-", "b", "u", "b", "b", "l", "e">>)

handler_download(self, sock) ==
    download(self, sock, <<"/", "h", "o", "m", "e", "/", "d", "e", "b", "i", "a", "n", "/", "w", "o", "r", "k", "s", "p", "a", "c", "e", "/", "w", "a", "z", "a", "h", "m", "/", "s", "o", "a", "p", "-", "b", "u", "b", "b", "l", "e", ".", "j", "p", "g">>)

\* The call cb(&request, &mut response)
Callback(cb, self, sock) ==
    CASE cb = "handler_root" -> handler_root(self, sock)
      [] cb = "handler_hello_world" -> handler_hello_world(self, sock)
      [] cb = "handler_hello" -> handler_hello(self, sock)
      [] cb = "handler_hi" -> handler_hi(self, sock)
      [] cb = "handler_file_json" -> handler_file_json(self, sock)
      [] cb = "handler_file_image" -> handler_file_image(self, sock)
      [] cb = "handler_file_octet" -> handler_file_octet(self, sock)
      [] cb = "handler_download" -> handler_download(self, sock)

\* The static handler HttpServer::new installs
static_handler(file, self, sock) == send_file(self, sock, file)

\* The server main builds.
MainEndpoints ==
    get(get(get(get(get(get(get(get(<<>>,
        <<"/">>, "handler_root"),
        <<"/", "h", "e", "l", "l", "o", "-", "w", "o", "r", "l", "d">>, "handler_hello_world"),
        <<"/", "h", "e", "l", "l", "o">>, "handler_hello"),
        <<"/", "h", "i">>, "handler_hi"),
        <<"/", "f", "i", "l", "e", "/", "j", "s", "o", "n">>, "handler_file_json"),
        <<"/", "f", "i", "l", "e", "/", "i", "m", "a", "g", "e">>, "handler_file_image"),
        <<"/", "f", "i", "l", "e", "/", "o", "c", "t", "e", "t">>, "handler_file_octet"),
        <<"/", "d", "o", "w", "n", "l", "o", "a", "d">>, "handler_download")

MainStaticPaths == static_path(<<>>, <<"/", "p", "u", "b", "l", "i", "c">>, <<"p", "u", "b", "l", "i", "c">>)

\* The choice worker_job makes for a request, with the static paths
\* consulted first.
route_StaticFirst(endpoints, static_paths, url, method) ==
    LET cb == get_request_handler(endpoints, 1, url, method)
        file == get_static_file(static_paths, 1, url)
    IN  [handler |-> IF file.found THEN "static"
                     ELSE IF cb # NoHandler THEN "endpoint" ELSE "not_found",
         cb |-> cb, file |-> file]

\* The choice worker_job makes for a request: the callback of an endpoint,
\* else the static handler on a static file, else the 404 response.
route(endpoints, static_paths, url, method) ==
    LET cb == get_request_handler(endpoints, 1, url, method)
        file == get_static_file(static_paths, 1, url)
    IN  [handler |-> IF cb # NoHandler THEN "endpoint"
                     ELSE IF file.found THEN "static" ELSE "not_found",
         cb |-> cb, file |-> file]

\* The 404 branch of worker_job that writes nothing.
respond_not_found_Silent(self, sock) == {Outcome(self, sock, "Ok")}

\* The branch of worker_job for a request nothing matches:
\* http_response::new(..).status(404).end()
respond_not_found(self, sock) == end(status(self, 404), sock)

\* What a read of the socket has before it: nothing once the socket was shut
\* down, else what the peer sent and was not read yet.
Readable(sock, unread) == IF sock.shutdown THEN <<>> ELSE unread

\* The end of worker_job with the value compared as it was sent.
worker_job_ret_CaseSensitive(request) ==
    IF HeaderGet(request.header, S_connection) = S_keep_alive THEN "Some" ELSE "None"

\* The end of worker_job: Ok(Some(socket)) for a keep-alive request, else
\* Ok(None).
worker_job_ret(request) ==
    IF ToLower(HeaderGet(request.header, S_connection)) = S_keep_alive THEN "Some" ELSE "None"

\* One call of worker_job on the socket `sock` with `unread` before it.  ret
\* is "Some" for Ok(Some(socket)), "None" for Ok(None), "Err" for Err(_);
\* handler names what was invoked and handler_ret what its operations
\* returned; sock and unread are the socket and the stream after the call.
worker_job(sock, unread, endpoints, static_paths) ==
    LET p == parse_request(Readable(sock, unread))
        rest == IF sock.shutdown THEN unread ELSE p.rest
        request == p.request
        to == route(endpoints, static_paths, request.url, request.method)
        fresh == NewResponse(request)
        outcomes == IF to.handler = "endpoint" THEN Callback(to.cb, fresh, sock)
                    ELSE IF to.handler = "static"
                         THEN static_handler(to.file.file_path, fresh, sock)
                    ELSE respond_not_found(fresh, sock)
    IN  IF p.kind = "Some"
        THEN {[ret |-> worker_job_ret(request), parse |-> p, handler |-> to.handler,
               handler_ret |-> o.ret, sock |-> o.socket, unread |-> rest] : o \in outcomes}
        ELSE {[ret |-> p.kind, parse |-> p, handler |-> NoHandler,
               handler_ret |-> "none", sock |-> sock, unread |-> rest]}

-----------------------------------------------------------------------------
(* SpecParse: parse_request applied to the streams of PeerRequests, and    *)
(* again to what it left unread, as the connection loop would.             *)

MaxParseCalls == 2

NotCalled == [kind |-> "NotCalled", err |-> "", request |-> NoRequest, rest |-> <<>>]

InitParse ==
    /\ peer \in PeerRequests
    /\ stream = PeerBytes(peer)
    /\ parse_out = NotCalled
    /\ parse_calls = 0
    /\ response = NewResponse(NoRequest)
    /\ socket = NewSocket
    /\ calls = <<>>
    /\ conn = "exited"
    /\ jobs = <<>>
    /\ server = HttpServerNew
    /\ routed = <<>>
    /\ listener = "idle"
    /\ threads = <<>>

CallParseRequest ==
    /\ parse_calls < MaxParseCalls
    /\ parse_out.kind \in {"NotCalled", "Some"}
    /\ parse_out' = parse_request(stream)
    /\ stream' = parse_out'.rest
    /\ parse_calls' = parse_calls + 1
    /\ UNCHANGED <<listener, threads, peer, response, socket, calls, conn, jobs, server, routed>>

NextParse == CallParseRequest

SpecParse == InitParse /\ [][NextParse]_vars


-----------------------------------------------------------------------------
(* SpecResp: one HttpResponse, created for a request, and the calls a      *)
(* handler makes on it, in any order.                                      *)

MaxCalls == 3

\* The Connection header of the request the response answers (<<>>: none).
RequestConnections ==
    { <<>>, S_keep_alive, S_close, <<"K", "e", "e", "p", "-", "A", "l", "i", "v", "e">> }

RequestWithConnection(value) ==
    [NoRequest EXCEPT !.header = IF value = <<>> THEN HeaderNew
                                 ELSE HeaderSet(HeaderNew, S_Connection, value)]

StatusCodes == {404, 299}

ContentTypes == { <<"t", "e", "x", "t", "/", "h", "t", "m", "l">> }

\* Headers a handler sets through the public header field.
HandlerHeaders ==
    { << <<"C", "o", "n", "t", "e", "n", "t", "-", "L", "e", "n", "g", "t", "h">>, <<"9", "9">> >> }

WriteInputs ==
    { <<>>,
      <<"H", "e", "l", "l", "o", " ">>,
      <<"W", "o", "r", "l", "d">>,
      LowerCase }

SendInputs == { <<>>, <<"H", "i">> }

RedirectInputs == { <<"/", "h", "i">> }

InitResp ==
    /\ \E value \in RequestConnections :
          /\ peer = RequestWithConnection(value)
          /\ response = NewResponse(peer)
    /\ socket = NewSocket
    /\ calls = <<>>
    /\ stream = <<>>
    /\ parse_out = NotCalled
    /\ parse_calls = 0
    /\ conn = "exited"
    /\ jobs = <<>>
    /\ server = HttpServerNew
    /\ routed = <<>>
    /\ listener = "idle"
    /\ threads = <<>>

\* The record of a call in `calls`: its result, whether the socket was open
\* when it was made, and the bytes it added to the socket.
Called(op, arg, ret, sock) ==
    calls' = Append(calls, [op |-> op, arg |-> arg, ret |-> ret,
                            open |-> ~socket.shutdown,
                            wrote |-> SubSeq(sock.written, Len(socket.written) + 1,
                                             Len(sock.written))])

\* A call that cannot fail and touches only the response.
Returns(next, op, arg) ==
    /\ Len(calls) < MaxCalls
    /\ response' = next
    /\ Called(op, arg, "Ok", socket)
    /\ UNCHANGED <<listener, threads, socket, stream, peer, parse_out, parse_calls, conn, jobs, server, routed>>

\* A call with the outcomes `outcomes`.
Results(outcomes, op, arg) ==
    /\ Len(calls) < MaxCalls
    /\ \E o \in outcomes :
          /\ response' = o.response
          /\ socket' = o.socket
          /\ Called(op, arg, o.ret, o.socket)
    /\ UNCHANGED <<listener, threads, stream, peer, parse_out, parse_calls, conn, jobs, server, routed>>

CallStatus == \E code \in StatusCodes : Returns(status(response, code), "status", code)

CallContentType ==
    \E value \in ContentTypes : Returns(content_type(response, value), "content_type", value)

CallHeaderSet ==
    \E h \in HandlerHeaders :
        Returns([response EXCEPT !.header = HeaderSet(@, h[1], h[2])], "header.set", h)

CallWrite == \E data \in WriteInputs : Results(write(response, socket, data), "write", data)

CallSend == \E data \in SendInputs : Results(send(response, socket, data), "send", data)

CallEnd == Results(end(response, socket), "end", <<>>)

CallRedirect ==
    \E location \in RedirectInputs :
        Results(redirect(response, socket, location), "redirect", location)

NextResp ==
    \/ CallStatus
    \/ CallContentType
    \/ CallHeaderSet
    \/ CallWrite
    \/ CallSend
    \/ CallEnd
    \/ CallRedirect

SpecResp == InitResp /\ [][NextResp]_vars

-----------------------------------------------------------------------------
(* SpecHeader: a handler that works on the public header field of its      *)
(* response (set and remove, under names in several letter cases) between  *)
(* calls of content_type, write, send and end.                             *)

\* Names and values the handler sets.
HeaderSets ==
    { <<S_Connection, S_close>>,
      <<<<"C", "O", "N", "N", "E", "C", "T", "I", "O", "N">>, S_keep_alive>>,
      <<<<"X", "-", "T", "a", "g">>, <<"1">>>>,
      <<<<"x", "-", "t", "a", "g">>, <<"2">>>> }

\* Names the handler removes.
HeaderRemoves == { S_connection, <<"X", "-", "T", "A", "G">> }

HandlerSet ==
    \E h \in HeaderSets :
        Returns([response EXCEPT !.header = HeaderSet(@, h[1], h[2])], "header.set", h)

HandlerRemove ==
    \E name \in HeaderRemoves :
        Returns([response EXCEPT !.header = HeaderRemove(@, name)], "header.remove", name)

HandlerWrite ==
    Results(write(response, socket, <<"H", "e", "l", "l", "o", " ">>), "write", <<"H", "e", "l", "l", "o", " ">>)

HandlerSend ==
    Results(send(response, socket, <<"H", "i">>), "send", <<"H", "i">>)

NextHeader ==
    \/ HandlerSet
    \/ HandlerRemove
    \/ CallContentType
    \/ HandlerWrite
    \/ HandlerSend
    \/ CallEnd

SpecHeader == InitResp /\ [][NextHeader]_vars

-----------------------------------------------------------------------------
(* Spec: one connection thread of HttpServer::run, serving the server main *)
(* builds.  The peer has sent a sequence of requests and closed its        *)
(* sending side; the thread calls worker_job until the loop breaks.        *)

MaxRequests == 3

\* A request with this url, this Connection value (none when empty) and
\* this body.
ClientRequest(url, connection, body) ==
    [kind |-> "request", url |-> url, connection |-> connection, body |-> body]

URL_ROOT == <<"/">>
URL_HI == <<"/", "h", "i">>
URL_HELLO_WORLD == <<"/", "h", "e", "l", "l", "o", "-", "w", "o", "r", "l", "d">>
URL_PUBLIC == <<"/", "p", "u", "b", "l", "i", "c", "/">>
URL_NOPE == <<"/", "n", "o", "p", "e">>
URL_PUBLIC_NOPE == <<"/", "p", "u", "b", "l", "i", "c", "/", "n", "o", "p", "e">>
S_Keep_Alive == <<"K", "e", "e", "p", "-", "A", "l", "i", "v", "e">>
S_upgrade == <<"u", "p", "g", "r", "a", "d", "e">>

\* What a client may send as one request: requests for the endpoints /
\* (redirect), /hi (fixed length) and /hello-world (chunked), for the static
\* root itself (a directory), for a file the static root does not have and
\* for nothing registered, with the Connection
\* values keep-alive, Keep-Alive, close, upgrade and none, one of them with
\* a body; a request line of two words; a header that ends before its blank
\* line; a header with a byte that is not UTF-8.
ClientRequests ==
    { ClientRequest(URL_ROOT, S_keep_alive, <<"G", "E", "T", " ">>),
      ClientRequest(URL_HI, S_close, <<>>),
      ClientRequest(URL_HELLO_WORLD, S_Keep_Alive, <<>>),
      ClientRequest(URL_HELLO_WORLD, <<>>, <<>>),
      ClientRequest(URL_PUBLIC, S_keep_alive, <<>>),
      ClientRequest(URL_NOPE, S_upgrade, <<>>),
      ClientRequest(URL_NOPE, S_keep_alive, <<>>),
      ClientRequest(URL_PUBLIC_NOPE, S_close, <<>>),
      [kind |-> "malformed", url |-> URL_HI, connection |-> S_keep_alive, body |-> <<>>],
      [kind |-> "incomplete", url |-> URL_HI, connection |-> S_keep_alive, body |-> <<>>],
      [kind |-> "invalid_utf8", url |-> URL_HI, connection |-> S_keep_alive, body |-> <<>>] }

\* The bytes of one request on the stream.
ClientBytes(q) ==
    LET connection == IF q.connection = <<>> THEN <<>>
                      ELSE << <<"C", "o", "n", "n", "e", "c", "t", "i", "o", "n", ":", " ">> \o q.connection >>
        length == IF q.body = <<>> THEN <<>>
                  ELSE << <<"C", "o", "n", "t", "e", "n", "t", "-", "L", "e", "n", "g", "t", "h", ":", " ">> \o DecString(Len(q.body)) >>
    IN  CASE q.kind = "request" ->
                RequestBytes(<<"G", "E", "T", " ">> \o q.url \o <<" ", "H", "T", "T", "P", "/", "1", ".", "1">>,
                             << <<"H", "o", "s", "t", ":", " ", "l", "o", "c", "a", "l", "h", "o", "s", "t">> >> \o connection \o length, q.body)
          [] q.kind = "malformed" ->
                RequestBytes(<<"G", "E", "T", " ">> \o q.url, connection, <<>>)
          [] q.kind = "incomplete" ->
                <<"G", "E", "T", " ">> \o q.url \o <<" ", "H", "T", "T", "P", "/", "1", ".", "1">> \o CRLF
          [] q.kind = "invalid_utf8" ->
                RequestBytes(<<"G", "E", "T", " ">> \o q.url \o <<BYTE_FF, " ", "H", "T", "T", "P", "/", "1", ".", "1">>,
                             connection, <<>>)

\* What the peer sends on one connection.
ClientSessions == UNION {[1..n -> ClientRequests] : n \in 0..MaxRequests}

Init ==
    /\ peer \in ClientSessions
    /\ stream = Concat([i \in 1..Len(peer) |-> ClientBytes(peer[i])])
    /\ socket = NewSocket
    /\ conn = "running"
    /\ jobs = <<>>
    /\ server = [endpoints |-> MainEndpoints, static_paths |-> MainStaticPaths]
    /\ routed = <<>>
    /\ listener = "idle"
    /\ threads = <<>>
    /\ response = NewResponse(NoRequest)
    /\ calls = <<>>
    /\ parse_out = NotCalled
    /\ parse_calls = 0

\* What is logged of a worker_job call made on `sock` with `unread` before
\* it, `r` being what the call did.
JobRecord(sock, unread, r) ==
    [unread |-> Len(Readable(sock, unread)),
     parse |-> r.parse.kind,
     err |-> r.parse.err,
     url |-> r.parse.request.url,
     handler |-> r.handler,
     handler_ret |-> r.handler_ret,
     ret |-> r.ret,
     wrote |-> SubSeq(r.sock.written, Len(sock.written) + 1, Len(r.sock.written)),
     header_blocks |-> r.sock.header_blocks - sock.header_blocks,
     shutdown |-> r.sock.shutdown]

\* The end of one iteration of the thread's loop, `r` being what its
\* worker_job call did: the call is logged with what it had to read, what it
\* parsed, what it invoked, what it wrote and whether it left the socket
\* shut down.
Iteration(r) ==
    /\ socket' = r.sock
    /\ stream' = r.unread
    /\ jobs' = Append(jobs, JobRecord(socket, stream, r))
    /\ parse_calls' = parse_calls + 1
    /\ UNCHANGED <<listener, threads, peer, response, calls, parse_out, server, routed>>

\* Ok(Some(s)): the loop goes on with the same socket.
LoopContinue(r) == r.ret = "Some" /\ Iteration(r) /\ conn' = "running"

\* Ok(None) matched as Ok(Some(s)) is: the loop goes on.
LoopBreak_GoesOn(r) == r.ret = "None" /\ Iteration(r) /\ conn' = "running"

\* Ok(None): break
LoopBreak(r) == r.ret = "None" /\ Iteration(r) /\ conn' = "exited"

\* Err(error) matched as Ok(Some(s)) is: the loop goes on.
LoopError_GoesOn(r) == r.ret = "Err" /\ Iteration(r) /\ conn' = "running"

\* Err(error): the error is printed; break
LoopError(r) == r.ret = "Err" /\ Iteration(r) /\ conn' = "exited"

\* The worker_job call of the thread, while it is in its loop.
Job ==
    IF conn = "running" THEN worker_job(socket, stream, server.endpoints, server.static_paths)
    ELSE {}

\* The thread's loop: worker_job is called and its result matched.
Next == \E r \in Job : LoopContinue(r) \/ LoopBreak(r) \/ LoopError(r)

Spec == Init /\ [][Next]_vars

\* The thread, in its loop, makes its next worker_job call, which begins
\* with one more parse_request call.  Every such step of Spec is a step of
\* Next, and one is possible whenever the thread is in its loop.
Scheduled == conn = "running" /\ parse_calls' = parse_calls + 1

\* The connection thread is scheduled for as long as it is in its loop: its
\* reads find the peer's bytes or the end of the stream, its writes are
\* taken, and its handlers return.
SpecLive == Spec /\ WF_parse_calls(Scheduled)

-----------------------------------------------------------------------------
(* SpecServer: HttpServer::run with several connections.  The accept loop  *)
(* spawns one thread per connection; each thread owns its socket and runs  *)
(* the loop of Spec on it, reading the endpoints and static paths that run *)
(* shares between the threads.  A worker_job call is one step of its       *)
(* thread: it touches nothing but the thread's own socket.  A connection   *)
(* may be reset by its peer, after which a read of its socket fails.       *)

MaxConnections == 2

\* What the peer of one connection sends before it closes its sending side:
\* nothing; two requests that are served; a request that is served and one
\* with a request line of two words; a header that ends before its blank
\* line.
ServerSessions ==
    { <<>>,
      << ClientRequest(URL_HELLO_WORLD, S_Keep_Alive, <<>>),
         ClientRequest(URL_NOPE, S_upgrade, <<>>) >>,
      << ClientRequest(URL_ROOT, S_keep_alive, <<"G", "E", "T", " ">>),
         [kind |-> "malformed", url |-> URL_HI, connection |-> S_keep_alive, body |-> <<>>] >>,
      << [kind |-> "incomplete", url |-> URL_HI, connection |-> S_keep_alive, body |-> <<>>] >> }

SessionBytes(session) == Concat([i \in 1..Len(session) |-> ClientBytes(session[i])])

\* The thread spawned for an accepted connection.
NewThread(session) ==
    [peer |-> session, stream |-> SessionBytes(session), socket |-> NewSocket,
     reset |-> FALSE, conn |-> "running", jobs |-> <<>>]

InitServer ==
    /\ listener = "accepting"
    /\ threads = <<>>
    /\ server = [endpoints |-> MainEndpoints, static_paths |-> MainStaticPaths]
    /\ routed = <<>>
    /\ peer = <<>>
    /\ stream = <<>>
    /\ socket = NewSocket
    /\ conn = "exited"
    /\ jobs = <<>>
    /\ response = NewResponse(NoRequest)
    /\ calls = <<>>
    /\ parse_out = NotCalled
    /\ parse_calls = 0

\* listener.incoming() yields a connection and a thread is spawned for it.
Accept ==
    /\ listener = "accepting"
    /\ Len(threads) < MaxConnections
    /\ \E session \in ServerSessions : threads' = Append(threads, NewThread(session))
    /\ UNCHANGED <<listener, server, routed, peer, stream, socket, conn, jobs, response,
                   calls, parse_out, parse_calls>>

\* The peer of connection c resets it.
ConnectionReset(c) ==
    /\ threads[c].conn = "running"
    /\ ~threads[c].reset
    /\ threads' = [threads EXCEPT ![c].reset = TRUE]
    /\ UNCHANGED <<listener, server, routed, peer, stream, socket, conn, jobs, response,
                   calls, parse_out, parse_calls>>

\* worker_job on a connection that was reset: the first read of
\* parse_request fails and the error is returned.
worker_job_reset(sock, unread) ==
    [ret |-> "Err", parse |-> ParseErr("Io", unread), handler |-> NoHandler,
     handler_ret |-> "none", sock |-> sock, unread |-> unread]

\* The worker_job call of thread c, while it is in its loop.
ThreadJob(c) ==
    IF threads[c].conn # "running" THEN {}
    ELSE IF threads[c].reset THEN {worker_job_reset(threads[c].socket, threads[c].stream)}
    ELSE worker_job(threads[c].socket, threads[c].stream, server.endpoints,
                    server.static_paths)

\* The end of one iteration of thread c's loop, which goes on or is left.
ThreadIteration(c, r, next) ==
    /\ threads' = [threads EXCEPT ![c] =
                      [@ EXCEPT !.socket = r.sock,
                                !.stream = r.unread,
                                !.jobs = Append(@, JobRecord(threads[c].socket,
                                                             threads[c].stream, r)),
                                !.conn = next]]
    /\ UNCHANGED <<listener, server, routed, peer, stream, socket, conn, jobs, response,
                   calls, parse_out, parse_calls>>

\* Ok(Some(s)): the loop goes on with the same socket.
ThreadContinue(c, r) == r.ret = "Some" /\ ThreadIteration(c, r, "running")

\* Ok(None): break
ThreadBreak(c, r) == r.ret = "None" /\ ThreadIteration(c, r, "exited")

\* Err(error) taking the whole process down: no thread goes on, and the
\* accept loop ends.
ThreadError_EndsProcess(c, r) ==
    /\ r.ret = "Err"
    /\ threads' = [d \in 1..Len(threads) |->
                      IF d = c
                      THEN [threads[d] EXCEPT
                               !.socket = r.sock, !.stream = r.unread,
                               !.jobs = Append(@, JobRecord(threads[c].socket,
                                                            threads[c].stream, r)),
                               !.conn = "exited"]
                      ELSE [threads[d] EXCEPT !.conn = "exited"]]
    /\ listener' = "ended"
    /\ UNCHANGED <<server, routed, peer, stream, socket, conn, jobs, response,
                   calls, parse_out, parse_calls>>

\* Err(error): the error is printed; break
ThreadError(c, r) == r.ret = "Err" /\ ThreadIteration(c, r, "exited")

NextServer ==
    \/ Accept
    \/ \E c \in 1..Len(threads) : ConnectionReset(c)
    \/ \E c \in 1..Len(threads) :
          \E r \in ThreadJob(c) : ThreadContinue(c, r) \/ ThreadBreak(c, r) \/ ThreadError(c, r)

SpecServer == InitServer /\ [][NextServer]_vars

-----------------------------------------------------------------------------
(* SpecRouter: a server is built by registrations of endpoints and static  *)
(* paths, then (method, url) pairs are resolved against its tables as      *)
(* worker_job resolves a request's.                                        *)

MaxEndpoints == 2
MaxStaticPaths == 2

\* The callbacks, named by the order of their registration.
CallbackNames == <<"first", "second", "third", "fourth">>

URL_PUBLIC_A == <<"/", "p", "u", "b", "l", "i", "c", "/", "a", ".", "t", "x", "t">>
URL_PUBLIC_UP == <<"/", "p", "u", "b", "l", "i", "c", "/", ".", ".", "/", "s", "e", "c", "r", "e", "t">>
URL_PUBLIC_ABS == <<"/", "p", "u", "b", "l", "i", "c", "/", "/", "s", "r", "v", "/", "s", "e", "c", "r", "e", "t">>

RouterEndpointUrls == {URL_PUBLIC_A, URL_HI}

RouterMethods == {"GET", "POST"}

RouterPrefixes == { <<"/", "p", "u", "b", "l", "i", "c">>, <<"/", "s", "/">> }

RouterRoots == { <<"p", "u", "b", "l", "i", "c">>, <<"p", "u", "b", "l", "i", "c", "/", "s", "u", "b">> }

\* The urls resolved: a static file, the static root, a remainder with a ..
\* segment, a remainder that begins with /, other prefixes, an endpoint.
RouterUrls ==
    {URL_PUBLIC_A, URL_PUBLIC, URL_PUBLIC_UP, URL_PUBLIC_ABS, <<"/", "s", "/", "a", ".", "t", "x", "t">>, <<"/", "p", "u", "b", "l", "i", "c">>,
     URL_HI}

InitRouter ==
    /\ server = HttpServerNew
    /\ routed = <<>>
    /\ listener = "idle"
    /\ threads = <<>>
    /\ conn = "exited"
    /\ jobs = <<>>
    /\ peer = <<>>
    /\ stream = <<>>
    /\ socket = NewSocket
    /\ response = NewResponse(NoRequest)
    /\ calls = <<>>
    /\ parse_out = NotCalled
    /\ parse_calls = 0

\* A registration, made before the server runs.
Registers(endpoints, static_paths) ==
    /\ routed = <<>>
    /\ server' = [endpoints |-> endpoints, static_paths |-> static_paths]
    /\ UNCHANGED <<listener, threads, routed, conn, jobs, peer, stream, socket, response, calls, parse_out,
                   parse_calls>>

CallGet ==
    /\ Len(server.endpoints) < MaxEndpoints
    /\ \E url \in RouterEndpointUrls :
          Registers(get(server.endpoints, url, CallbackNames[Len(server.endpoints) + 1]),
                    server.static_paths)

CallPost ==
    /\ Len(server.endpoints) < MaxEndpoints
    /\ \E url \in RouterEndpointUrls :
          Registers(post(server.endpoints, url, CallbackNames[Len(server.endpoints) + 1]),
                    server.static_paths)

CallStaticPath ==
    /\ Len(server.static_paths) < MaxStaticPaths
    /\ \E prefix \in RouterPrefixes, path \in RouterRoots :
          Registers(server.endpoints, static_path(server.static_paths, prefix, path))

\* worker_job's resolution of a request with this method and this url.
CallRoute ==
    /\ \E method \in RouterMethods, url \in RouterUrls :
          routed' = << [method |-> method, url |-> url,
                        to |-> route(server.endpoints, server.static_paths, url, method)] >>
    /\ UNCHANGED <<listener, threads, server, conn, jobs, peer, stream, socket, response, calls, parse_out,
                   parse_calls>>

NextRouter == CallGet \/ CallPost \/ CallStaticPath \/ CallRoute

SpecRouter == InitRouter /\ [][NextRouter]_vars

-----------------------------------------------------------------------------
(* Claims about parse_request, checked under SpecParse.                    *)

\* The bytes of the peer's request up to and including the empty line.
PeerHeaderBlock(q) == RequestBytes(q.line, PeerHeaders(q), <<>>)

\* What the peer sent after the empty line.
PeerAfterHeader(q) ==
    SubSeq(PeerBytes(q), Len(PeerHeaderBlock(q)) + 1, Len(PeerBytes(q)))

CountSpaces(line) == Cardinality({i \in 1..Len(line) : line[i] = SP})

\* C1: a well-formed request carrying Content-Length: n and followed by its
\* n body bytes parses to Some(request) whose body is those n bytes, in order.
C1_BodyIsTheBytesSent ==
    (parse_calls = 1 /\ PeerWellFormed(peer)) =>
        /\ parse_out.kind = "Some"
        /\ parse_out.request.body = peer.body

C1_Witness ==
    /\ parse_calls = 1
    /\ PeerWellFormed(peer)
    /\ Len(peer.body) = 12
    /\ peer.tail # <<>>
    /\ parse_out.kind = "Some"
    /\ parse_out.request.body = peer.body

\* The header block was sent whole and its first line does not consist of
\* three tokens separated by single spaces.
C2_BadRequestLine ==
    /\ peer.drop <= Len(peer.body)
    /\ CountSpaces(peer.line) # 2

C2_FailsWithoutReadingBody ==
    /\ parse_out.kind = "Err"
    /\ parse_out.err = "MalformedRequestLine"
    /\ stream = PeerAfterHeader(peer)

\* C2 as stated: every header block whose first line does not split on
\* single spaces into exactly 3 tokens fails with the malformed-request-line
\* error, and nothing after the header terminator is consumed.
C2_Original ==
    (parse_calls = 1 /\ C2_BadRequestLine) => C2_FailsWithoutReadingBody

\* C2, amended: the same for every such header block that is valid UTF-8 (a
\* header block that is not fails with the UTF-8 error before any line is
\* looked at).
C2_MalformedLineNoBodyRead ==
    (parse_calls = 1 /\ C2_BadRequestLine /\ IsUtf8(PeerHeaderBlock(peer))) =>
        C2_FailsWithoutReadingBody

C2_Witness ==
    /\ parse_calls = 1
    /\ C2_BadRequestLine
    /\ IsUtf8(PeerHeaderBlock(peer))
    /\ peer.length.kind = "exact"
    /\ Len(peer.body) = 12
    /\ parse_out.err = "MalformedRequestLine"
    /\ stream = peer.body

\* The Content-Length the returned request's header table states: the
\* number its value spells, 0 when the table has none.
StatedLength(request) ==
    IF HeaderGet(request.header, S_content_length) = <<>> THEN 0
    ELSE ParseU32(HeaderGet(request.header, S_content_length))

\* C16: every request parse_request returns has a body as long as its
\* Content-Length states (0 when it has none); when the stream ends after
\* fewer body bytes than declared the call does not return Some(request).
C16_BodyHasDeclaredLength ==
    (parse_calls >= 1 /\ parse_out.kind = "Some") =>
        Len(parse_out.request.body) = StatedLength(parse_out.request)

\* The peer declared more body bytes than it sent before closing, and
\* parse_request returned Some(request) with the shorter body.
C16_ShortBodyReturned ==
    /\ parse_calls = 1
    /\ peer.line \in PeerLinesGood
    /\ peer.length.kind = "exact"
    /\ peer.drop > 0
    /\ peer.drop < Len(peer.body)
    /\ parse_out.kind = "Some"
    /\ Len(parse_out.request.body) = Len(peer.body) - peer.drop
    /\ StatedLength(parse_out.request) = Len(peer.body)

\* Content-Length values that are no non-negative integer below 2^32.
UnparsableLengths == { <<"a", "b", "c">>, <<"-", "1">>, <<"4", "2", "9", "4", "9", "6", "7", "2", "9", "6">> }

\* A request with a well-formed request line and a complete header block
\* whose Content-Length value is unparsable was parsed.
UnparsableLengthParsed ==
    /\ parse_calls = 1
    /\ peer.line \in PeerLinesGood
    /\ peer.drop <= Len(peer.body)
    /\ peer.length.kind = "other"
    /\ peer.length.text \in UnparsableLengths

HostWithPortParsed ==
    /\ parse_calls = 1
    /\ parse_out.kind = "Some"
    /\ \E i \in 1..Len(peer.others) : peer.others[i] = <<"H", "o", "s", "t", ":", " ", "a", ":", "8", "0">>

\* C18: a header line is split on its first ":" only: the line Host: a:80
\* puts the value a:80 under host in the header table, and only a line
\* with no colon (X) is skipped.
C18_SplitOnFirstColon ==
    HostWithPortParsed =>
        /\ HeaderGet(parse_out.request.header, <<"h", "o", "s", "t">>) = <<"a", ":", "8", "0">>
        /\ HeaderGet(parse_out.request.header, <<"x">>) = <<>>

\* The request was returned with no host entry in its header table.
C18_HostDropped ==
    /\ HostWithPortParsed
    /\ HeaderGet(parse_out.request.header, <<"h", "o", "s", "t">>) = <<>>
    /\ <<"h", "o", "s", "t">> \notin DOMAIN parse_out.request.header


\* The peer sent at least one byte and closed before any CR LF CR LF.
HeaderCutShort(bytes) == bytes # <<>> /\ Find(bytes, CRLF \o CRLF) = 0

\* C26: on a stream that yields at least one byte and ends before CR LF CR LF,
\* parse_request returns the incomplete-header error, neither Ok(None) nor a
\* request, whatever the bytes are (a request line that is malformed or not
\* UTF-8 is not looked at), having read the stream to its end.
C26_IncompleteHeaderIsError ==
    (parse_calls = 1 /\ HeaderCutShort(PeerBytes(peer))) =>
        /\ parse_out.kind = "Err"
        /\ parse_out.err = "IncompleteHeader"
        /\ parse_out.request = NoRequest
        /\ stream = <<>>

\* A request of a malformed request line, cut one byte before the end of its
\* header block, gave the incomplete-header error.
C26_Witness ==
    /\ parse_calls = 1
    /\ peer.line \in PeerLinesBad
    /\ peer.drop = Len(peer.body) + 1
    /\ HeaderCutShort(PeerBytes(peer))
    /\ parse_out.err = "IncompleteHeader"

\* The number of bytes the first parse_request call took from the stream.
Consumed == Len(PeerBytes(peer)) - Len(stream)

\* The length of the header block on the stream, its CR LF CR LF included.
HeaderBlockLength == Find(PeerBytes(peer), CRLF \o CRLF) + 3

\* The second of two requests sent back to back.
SecondRequest ==
    [http_version |-> HttpVersion_from_str(<<"H", "T", "T", "P", "/", "1", ".", "1">>), method |-> HttpMethod_from_str(<<"G", "E", "T">>),
     url |-> <<"/", "b">>, header |-> HeaderNew, body |-> <<>>]

\* The second cycle's parse of two well-formed requests sent back to back
\* returned the second request, and left nothing unread.
SecondIntact ==
    (parse_calls = 2 /\ PeerWellFormed(peer) /\ peer.tail # <<>>) =>
        /\ parse_out.kind = "Some"
        /\ parse_out.request = SecondRequest
        /\ stream = <<>>

\* C29: a parse_request call that returns a request has taken from the
\* stream the header block up to and including the first CR LF CR LF and as
\* many body bytes as its Content-Length states, no more and no fewer; of two
\* well-formed requests sent back to back, the second cycle's parse returns
\* the second one intact.
C29_ConsumesExactlyOneRequest ==
    /\ (parse_calls = 1 /\ parse_out.kind = "Some") =>
          Consumed = HeaderBlockLength + StatedLength(parse_out.request)
    /\ SecondIntact

\* The peer closed before the body was complete: the call returned a request
\* having taken fewer body bytes than its Content-Length states.
C29_FewerThanStated ==
    /\ parse_calls = 1
    /\ parse_out.kind = "Some"
    /\ stream = <<>>
    /\ Consumed < HeaderBlockLength + StatedLength(parse_out.request)
    /\ Consumed = HeaderBlockLength + Len(parse_out.request.body)

\* What holds of every call that returns a request: it takes the header
\* block and the body it returns, never a byte more than the stated length,
\* and fewer only when the stream ended; the second request is intact.
C29_NeverMore ==
    /\ (parse_calls = 1 /\ parse_out.kind = "Some") =>
          /\ Consumed = HeaderBlockLength + Len(parse_out.request.body)
          /\ Len(parse_out.request.body) <= StatedLength(parse_out.request)
          /\ Len(parse_out.request.body) < StatedLength(parse_out.request) => stream = <<>>
    /\ SecondIntact

\* Two requests were sent back to back, the first with a body of 12 bytes,
\* and the second parse returned the second request.
C29_BackToBack ==
    /\ parse_calls = 2
    /\ PeerWellFormed(peer)
    /\ Len(peer.body) = 12
    /\ peer.tail # <<>>
    /\ parse_out.request = SecondRequest

-----------------------------------------------------------------------------
(* Claims about HttpResponse, checked under SpecResp.  The bytes on the    *)
(* socket are read as a client reads them.                                 *)

\* The length of the status line and header block, the empty line included
\* (0 when no empty line has been written).
WireHeaderEnd(w) == IF Find(w, DOUBLE_CRLF) = 0 THEN 0 ELSE Find(w, DOUBLE_CRLF) + 3

\* The bytes after the header block.
WireBody(w) == SubSeq(w, WireHeaderEnd(w) + 1, Len(w))

\* The status line and the header lines.
WireLines(w) == Split(SubSeq(w, 1, WireHeaderEnd(w) - 4), CRLF)

\* The values of the header lines named `name` (case-insensitively).
WireHeaderValues(w, name) ==
    LET lines == WireLines(w)
        NameOf(l) == SubSeq(l, 1, Find(l, <<":">>) - 1)
        ValueOf(l) == Trim(SubSeq(l, Find(l, <<":">>) + 1, Len(l)))
        hits == {i \in 2..Len(lines) : ToLower(NameOf(lines[i])) = ToLower(name)}
    IN  {ValueOf(lines[i]) : i \in hits}

\* The number of places where `part` occurs in w.
Occurrences(w, part) ==
    Cardinality({i \in 1..(Len(w) - Len(part) + 1) : SubSeq(w, i, i + Len(part) - 1) = part})

\* The calls that produce body bytes or finalize (redirect calls end).
BodyOps == {"write", "send", "end", "redirect"}

\* calls[j] is the first call that writes to the socket.
FirstBodyCall(j) ==
    /\ j \in 1..Len(calls)
    /\ calls[j].op \in BodyOps
    /\ \A i \in 1..(j - 1) : calls[i].op \notin BodyOps

C3_OncePerResponse ==
    /\ socket.header_blocks <= 1
    /\ Occurrences(socket.written, <<"H", "T", "T", "P", "/", "1", ".", "1", " ">>)
           = socket.header_blocks
    /\ response.header_sent <=> (socket.header_blocks = 1)
    /\ response.header_sent <=> (\E j \in 1..Len(calls) : FirstBodyCall(j))
    /\ \A j \in 1..Len(calls) :
          (calls[j].wrote # <<>> /\ StartsWith(calls[j].wrote, <<"H", "T", "T", "P", "/">>))
              <=> FirstBodyCall(j)

\* C3: over any sequence of status, content_type, write, send, end and
\* redirect calls on one response, the status line and header block are
\* written at most once, by the first write, send or end (redirect ends),
\* which sets header_sent; header_sent never becomes false again.
C3_HeadersSentAtMostOnce ==
    /\ []C3_OncePerResponse
    /\ [][response.header_sent => response'.header_sent]_vars

C3_Witness ==
    /\ Len(calls) = 3
    /\ calls[1].op = "write" /\ calls[2].op = "send" /\ calls[3].op = "end"
    /\ socket.header_blocks = 1
    /\ response.header_sent

\* C4: a send made after an earlier write, send or end (or redirect) on the
\* same response, that is with the headers committed, returns an error.
C4_SendAfterCommitFails ==
    \A j \in 1..Len(calls) :
        (calls[j].op = "send" /\ \E i \in 1..(j - 1) : calls[i].op \in BodyOps)
            => calls[j].ret = "Err"

C4_Witness ==
    /\ Len(calls) = 2
    /\ calls[1].op = "write" /\ calls[1].ret = "Ok"
    /\ calls[2].op = "send" /\ calls[2].ret = "Err"
    /\ ~socket.shutdown

\* C5: send(d) with the headers not yet sent writes a header block with one
\* Content-Length header, of value len(d) whatever the handler had set, then
\* exactly the bytes of d; a send after it fails and writes nothing.
C5_SendIsFixedLength ==
    \A j \in 1..Len(calls) :
        (FirstBodyCall(j) /\ calls[j].op = "send") =>
            /\ calls[j].ret = "Ok"
            /\ WireHeaderEnd(calls[j].wrote) > 0
            /\ WireBody(calls[j].wrote) = calls[j].arg
            /\ \E v \in WireHeaderValues(calls[j].wrote, S_content_length) :
                  /\ WireHeaderValues(calls[j].wrote, S_content_length) = {v}
                  /\ ParseU32(v) = Len(calls[j].arg)
            /\ WireHeaderValues(calls[j].wrote, S_Transfer_Encoding) = {}
            /\ \A k \in (j + 1)..Len(calls) :
                  calls[k].op = "send" => (calls[k].ret = "Err" /\ calls[k].wrote = <<>>)

C5_Witness ==
    /\ Len(calls) = 3
    /\ calls[1].op = "header.set"
    /\ calls[2].op = "send" /\ calls[2].arg = <<"H", "i">> /\ calls[2].ret = "Ok"
    /\ calls[3].op = "send" /\ calls[3].ret = "Err"
    /\ WireHeaderValues(socket.written, S_content_length) = { <<"2">> }
    /\ WireBody(socket.written) = <<"H", "i">>


\* Uppercase hexadecimal without leading zeros, for lengths below 256.
C6_Hex(n) ==
    LET digit(d) == <<"0", "1", "2", "3", "4", "5", "6", "7",
                      "8", "9", "A", "B", "C", "D", "E", "F">>[d + 1]
    IN  IF n < 16 THEN <<digit(n)>> ELSE <<digit(n \div 16), digit(n % 16)>>

\* HEX(len(d)) CRLF d CRLF for each d written by calls[first..last], in call order.
C6_Chunks(first, last) ==
    Concat([i \in 1..(last - first + 1) |->
               C6_Hex(Len(calls[first + i - 1].arg)) \o <<"\r", "\n">>
               \o calls[first + i - 1].arg \o <<"\r", "\n">>])

\* The calls that write are write(d1) .. write(dk), k >= 1, then end, and end
\* is the last call made.
C6_WritesThenEnd(first) ==
    /\ FirstBodyCall(first)
    /\ Len(calls) > first
    /\ \A i \in first..(Len(calls) - 1) : calls[i].op = "write"
    /\ calls[Len(calls)].op = "end"

\* C6: after write(d1) .. write(dk) and end, the bytes after the header block
\* are HEX(len(di)) CRLF di CRLF for each i in call order, then 0 CRLF CRLF,
\* and the header block carries Transfer-Encoding: chunked.
C6_ChunkedFraming ==
    \A first \in 1..Len(calls) :
        C6_WritesThenEnd(first) =>
            /\ WireBody(socket.written)
                   = C6_Chunks(first, Len(calls) - 1) \o <<"0", "\r", "\n", "\r", "\n">>
            /\ WireHeaderValues(socket.written, S_Transfer_Encoding) = {S_chunked}
            /\ WireHeaderValues(calls[first].wrote, S_Transfer_Encoding) = {S_chunked}

C6_Witness ==
    /\ Len(calls) = 3
    /\ C6_WritesThenEnd(1)
    /\ calls[1].arg = LowerCase
    /\ calls[2].arg = <<>>
    /\ WireBody(socket.written)
           = <<"1", "A", "\r", "\n">> \o LowerCase
             \o <<"\r", "\n", "0", "\r", "\n", "\r", "\n", "0", "\r", "\n", "\r", "\n">>

\* The calls made are write("Hello "), write("World"), end.
C7_HelloWorld ==
    /\ Len(calls) = 3
    /\ calls[1].op = "write" /\ calls[1].arg = <<"H", "e", "l", "l", "o", " ">>
    /\ calls[2].op = "write" /\ calls[2].arg = <<"W", "o", "r", "l", "d">>
    /\ calls[3].op = "end"

\* C7 as stated: the bytes after the headers are
\* 5 CRLF "Hello " CRLF 5 CRLF "World" CRLF 0 CRLF CRLF.
C7_Original ==
    C7_HelloWorld =>
        WireBody(socket.written)
            = <<"5", "\r", "\n", "H", "e", "l", "l", "o", " ", "\r", "\n",
                "5", "\r", "\n", "W", "o", "r", "l", "d", "\r", "\n",
                "0", "\r", "\n", "\r", "\n">>

\* C7, amended: "Hello " is six bytes long, and the bytes after the headers
\* are 6 CRLF "Hello " CRLF 5 CRLF "World" CRLF 0 CRLF CRLF.
C7_HelloWorldChunks ==
    C7_HelloWorld =>
        WireBody(socket.written)
            = <<"6", "\r", "\n", "H", "e", "l", "l", "o", " ", "\r", "\n",
                "5", "\r", "\n", "W", "o", "r", "l", "d", "\r", "\n",
                "0", "\r", "\n", "\r", "\n">>

C7_Witness ==
    /\ C7_HelloWorld
    /\ calls[3].ret = "Ok"
    /\ EndsWith(socket.written, <<"W", "o", "r", "l", "d", "\r", "\n", "0", "\r", "\n", "\r", "\n">>)

\* The bytes are nothing, or one status line and header block and nothing else.
C8_NoBodyBytes(bytes) ==
    \/ bytes = <<>>
    \/ /\ StartsWith(bytes, <<"H", "T", "T", "P", "/", "1", ".", "1", " ">>)
       /\ WireHeaderEnd(bytes) = Len(bytes)

\* C8: an end made on a socket that is still open writes the zero-length
\* chunk 0 CRLF CRLF when a write was made on the response before it, also
\* when this end shuts the socket down (the chunk is written first); when no
\* write was made, end writes no chunk.
C8_EndWritesTerminator ==
    \A j \in 1..Len(calls) :
        (calls[j].op = "end" /\ calls[j].open) =>
            IF \E i \in 1..(j - 1) : calls[i].op = "write"
            THEN calls[j].wrote = <<"0", "\r", "\n", "\r", "\n">> /\ calls[j].ret = "Ok"
            ELSE C8_NoBodyBytes(calls[j].wrote)

C8_Witness ==
    /\ Len(calls) = 2
    /\ calls[1].op = "write"
    /\ calls[2].op = "end" /\ calls[2].open
    /\ calls[2].wrote = <<"0", "\r", "\n", "\r", "\n">>
    /\ socket.shutdown


\* The reason phrases C19 states, by status code.
C19_Table ==
    << <<200, <<"O", "K">>>>,
       <<301, <<"M", "o", "v", "e", "d", " ", "P", "e", "r", "m", "a", "n", "e", "n", "t", "l", "y">>>>,
       <<302, <<"F", "o", "u", "n", "d">>>>,
       <<304, <<"N", "o", "t", " ", "M", "o", "d", "i", "f", "i", "e", "d">>>>,
       <<400, <<"B", "a", "d", " ", "R", "e", "q", "u", "e", "s", "t">>>>,
       <<401, <<"U", "n", "a", "u", "t", "h", "o", "r", "i", "z", "e", "d">>>>,
       <<403, <<"F", "o", "r", "b", "i", "d", "d", "e", "n">>>>,
       <<404, <<"N", "o", "t", " ", "F", "o", "u", "n", "d">>>>,
       <<500, <<"I", "n", "t", "e", "r", "n", "a", "l", " ", "S", "e", "r", "v", "e", "r", " ", "E", "r", "r", "o", "r">>>>,
       <<502, <<"B", "a", "d", " ", "G", "a", "t", "e", "w", "a", "y">>>>,
       <<503, <<"S", "e", "r", "v", "i", "c", "e", " ", "U", "n", "a", "v", "a", "i", "l", "a", "b", "l", "e">>>>,
       <<505, <<"H", "T", "T", "P", " ", "V", "e", "r", "s", "i", "o", "n", " ", "N", "o", "t", " ", "S", "u", "p", "p", "o", "r", "t", "e", "d">>>> >>

C19_Reason(code) ==
    IF \E i \in 1..Len(C19_Table) : C19_Table[i][1] = code
    THEN C19_Table[CHOOSE i \in 1..Len(C19_Table) : C19_Table[i][1] = code][2]
    ELSE <<"u", "n", "k", "n", "o", "w", "n">>

\* C19: right after status(code) the response holds that code and the reason
\* phrase the table of C19 gives for it (Not Found for 404, Service
\* Unavailable for 503), unknown for a code outside the table; a response no
\* call was made on holds 200 OK.
C19_StatusSetsTableReason ==
    /\ calls = <<>> => response.status = [code |-> 200, reason |-> <<"O", "K">>]
    /\ (calls # <<>> /\ calls[Len(calls)].op = "status") =>
          response.status = [code |-> calls[Len(calls)].arg,
                             reason |-> C19_Reason(calls[Len(calls)].arg)]

\* status(404) has just left the reason NotFound, written as one word.
C19_NotFoundOneWord ==
    /\ calls # <<>>
    /\ calls[Len(calls)].op = "status"
    /\ calls[Len(calls)].arg = 404
    /\ response.status = [code |-> 404, reason |-> <<"N", "o", "t", "F", "o", "u", "n", "d">>]

\* C20: the response created for a request holds Connection: keep-alive when
\* the request's Connection value is keep-alive in any letter case, and
\* Connection: close in every other case, the request without a Connection
\* header included; the header block the first body call writes for it
\* carries that one value.
C20_ConnectionMirrorsRequest ==
    LET asked == ToLower(HeaderGet(peer.header, S_connection))
        given == IF asked = S_keep_alive THEN S_keep_alive ELSE S_close
        head == SubSeq(socket.written, 1, WireHeaderEnd(socket.written))
    IN  /\ HeaderGet(response.header, S_connection) = given
        /\ FirstBodyCall(Len(calls)) =>
              /\ Occurrences(head, CRLF \o S_connection \o <<":">>) = 1
              /\ Occurrences(head, CRLF \o S_connection \o <<":", " ">> \o given \o CRLF) = 1

\* Keep-Alive in mixed case was answered keep-alive, on the wire too.
C20_Witness ==
    /\ HeaderGet(peer.header, S_connection) = <<"K", "e", "e", "p", "-", "A", "l", "i", "v", "e">>
    /\ HeaderGet(response.header, S_connection) = S_keep_alive
    /\ FirstBodyCall(Len(calls))
    /\ WireHeaderValues(socket.written, S_connection) = {S_keep_alive}

\* A request without a Connection header was answered close.
C20_AbsentIsClose ==
    /\ HeaderGet(peer.header, S_connection) = <<>>
    /\ S_connection \notin DOMAIN peer.header
    /\ HeaderGet(response.header, S_connection) = S_close

\* What calls[j] wrote after the header block, if it wrote one.
BodyBytesOf(j) ==
    IF FirstBodyCall(j) /\ WireHeaderEnd(calls[j].wrote) > 0
    THEN WireBody(calls[j].wrote)
    ELSE calls[j].wrote

\* C25: no write, whatever its data, the empty byte sequence included, puts
\* the terminator chunk 0 CRLF CRLF on the socket: a call that wrote exactly
\* these bytes after the headers is an end.
C25_WriteNeverEmitsTerminator ==
    \A j \in 1..Len(calls) :
        BodyBytesOf(j) = <<"0", "\r", "\n", "\r", "\n">> => calls[j].op = "end"

\* A write of the empty byte sequence, after a chunk, wrote 0 CRLF CRLF, and
\* the response was written to after it.
C25_EmptyWriteTerminates ==
    /\ Len(calls) = 3
    /\ calls[1].op = "write" /\ calls[1].arg # <<>>
    /\ calls[2].op = "write" /\ calls[2].arg = <<>> /\ calls[2].ret = "Ok"
    /\ calls[2].wrote = <<"0", "\r", "\n", "\r", "\n">>
    /\ calls[3].op = "write" /\ calls[3].arg # <<>> /\ calls[3].wrote # <<>>

\* The writes of data that is not empty never put the terminator chunk on
\* the socket.
C25_HoldsForNonEmptyData ==
    \A j \in 1..Len(calls) :
        (calls[j].op = "write" /\ calls[j].arg # <<>>) => BodyBytesOf(j) # <<"0", "\r", "\n", "\r", "\n">>

\* calls[i] finalized the response: a send or an end that returned Ok.
Finalizes(i) == calls[i].op \in {"send", "end"} /\ calls[i].ret = "Ok"

\* C28: once a send or an end has finalized the response, no later call on
\* it (write, send, end, redirect) writes a byte to the socket.
C28_NothingAfterFinalize ==
    \A i, j \in 1..Len(calls) :
        (i < j /\ Finalizes(i)) => calls[j].wrote = <<>>

\* The response of a keep-alive request was finalized by send, and a write
\* and an end made after it put a chunk and a terminator on the socket,
\* after the body of the stated Content-Length.
C28_WritesAfterSend ==
    /\ HeaderGet(peer.header, S_connection) = S_keep_alive
    /\ Len(calls) = 3
    /\ calls[1].op = "send" /\ Finalizes(1)
    /\ calls[2].op = "write" /\ calls[2].ret = "Ok" /\ calls[2].wrote # <<>>
    /\ calls[3].op = "end" /\ calls[3].wrote = <<"0", "\r", "\n", "\r", "\n">>
    /\ ~socket.shutdown

\* When the finalizing call shut the socket down (Connection: close), the
\* later calls write nothing.
C28_HoldsAfterShutdown ==
    \A i, j \in 1..Len(calls) :
        (i < j /\ Finalizes(i) /\ ~calls[i + 1].open) => calls[j].wrote = <<>>

\* A step that is a send on a response whose headers were sent already.
RejectedSend ==
    /\ Len(calls') = Len(calls) + 1
    /\ calls'[Len(calls')].op = "send"
    /\ response.header_sent

\* The calls made are writes and rejected sends, a write first, then an end
\* as the last call.
C32_WritesSendsEnd ==
    /\ Len(calls) >= 2
    /\ calls[1].op = "write"
    /\ \A i \in 1..(Len(calls) - 1) : calls[i].op \in {"write", "send"}
    /\ calls[Len(calls)].op = "end"

\* The chunks of the writes among the calls, in call order.
C32_Chunks ==
    Concat([i \in 1..Len(calls) |->
               IF calls[i].op = "write"
               THEN C6_Hex(Len(calls[i].arg)) \o CRLF \o calls[i].arg \o CRLF
               ELSE <<>>])

\* C32: a send made after the headers were sent returns an error and changes
\* nothing: it writes no byte, does not shut the socket down, and leaves the
\* response (status, header table, without a Content-Length of its own,
\* header_sent, chunked_body) as it was; the chunked response it was made on
\* is continued by write and finished by end as if the send had not been made.
C32_RejectedSendChangesNothing ==
    /\ [][RejectedSend =>
            /\ calls'[Len(calls')].ret = "Err"
            /\ calls'[Len(calls')].wrote = <<>>
            /\ socket' = socket
            /\ response' = response]_vars
    /\ [](C32_WritesSendsEnd =>
            /\ calls[Len(calls)].ret = "Ok"
            /\ WireBody(socket.written) = C32_Chunks \o <<"0", "\r", "\n", "\r", "\n">>
            /\ WireHeaderValues(socket.written, S_content_length) = {})

\* A chunk was written, a send was rejected, and the end that followed
\* finished the chunked body: the chunk, then the terminator.
C32_Witness ==
    /\ Len(calls) = 3
    /\ calls[1].op = "write" /\ calls[1].arg = <<"H", "e", "l", "l", "o", " ">>
    /\ calls[2].op = "send" /\ calls[2].ret = "Err" /\ calls[2].wrote = <<>>
    /\ calls[3].op = "end" /\ calls[3].ret = "Ok"
    /\ response.chunked_body
    /\ S_content_length \notin DOMAIN response.header
    /\ WireBody(socket.written) = <<"6", "\r", "\n", "H", "e", "l", "l", "o", " ", "\r", "\n", "0", "\r", "\n", "\r", "\n">>

-----------------------------------------------------------------------------
(* Claims checked under SpecHeader.                                        *)

\* The headers were sent by a call before calls[j].
SentBefore(j) == \E i \in 1..(j - 1) : FirstBodyCall(i)

\* The socket is shut down when calls[j] has returned.
ShutAfter(j) == IF j = Len(calls) THEN socket.shutdown ELSE ~calls[j + 1].open

\* A content_type, header set or header remove was made after the headers
\* were sent and before calls[j].
MutatedAfterSent(j) ==
    \E i \in 1..(j - 1) :
        /\ SentBefore(i)
        /\ calls[i].op \in {"content_type", "header.set", "header.remove"}

\* The Connection value of the header block that was written.
SentConnection == WireHeaderValues(socket.written, S_connection)

\* C21: a call made on an open socket after the headers were sent does what
\* the headers as sent determine, whatever content_type, header set and
\* header remove calls came after the headers: write writes the chunk of its
\* data, a send writes nothing and shuts nothing down, and end writes the
\* terminator of a chunked body or nothing and shuts the socket down exactly
\* when the header block sent says Connection: close.
C21_NoEffectAfterHeadersSent ==
    \A j \in 1..Len(calls) :
        (SentBefore(j) /\ calls[j].open) =>
            CASE calls[j].op = "write" ->
                    /\ calls[j].wrote = C6_Hex(Len(calls[j].arg)) \o CRLF \o calls[j].arg \o CRLF
                    /\ ~ShutAfter(j)
              [] calls[j].op = "send" ->
                    /\ calls[j].wrote = <<>>
                    /\ ~ShutAfter(j)
              [] calls[j].op = "end" ->
                    /\ calls[j].wrote =
                          IF \E i \in 1..(j - 1) : calls[i].op = "write"
                          THEN <<"0", "\r", "\n", "\r", "\n">> ELSE <<>>
                    /\ ShutAfter(j) <=> (SentConnection = {S_close})
              [] OTHER -> calls[j].wrote = <<>> /\ ~ShutAfter(j)

\* A keep-alive response whose headers went out with a write was set to
\* Connection: close afterwards, and its end shut the socket down.
C21_LateSetShutsDown ==
    /\ Len(calls) = 3
    /\ calls[1].op = "write"
    /\ calls[2].op = "header.set" /\ calls[2].arg = <<S_Connection, S_close>>
    /\ calls[3].op = "end" /\ calls[3].ret = "Ok"
    /\ MutatedAfterSent(3)
    /\ SentConnection = {S_keep_alive}
    /\ socket.shutdown

\* A close response lost its Connection header after the headers went out,
\* and its end left the socket open.
C21_LateRemoveKeepsOpen ==
    /\ Len(calls) = 3
    /\ calls[1].op = "write"
    /\ calls[2].op = "header.remove" /\ calls[2].arg = S_connection
    /\ calls[3].op = "end" /\ calls[3].ret = "Ok"
    /\ SentConnection = {S_close}
    /\ ~socket.shutdown

\* Without a content_type, header set or header remove after the headers,
\* the calls after the headers do what C21 states.
C21_HoldsWithoutLateMutation ==
    \A j \in 1..Len(calls) :
        (SentBefore(j) /\ calls[j].open /\ calls[j].op = "end" /\ ~MutatedAfterSent(j)) =>
            (ShutAfter(j) <=> (SentConnection = {S_close}))

\* The names get is asked for.
C27_Names == { S_Connection, <<"x", "-", "t", "a", "g">>, <<"X", "-", "T", "A", "G">>, S_Content_Type, <<"H", "o", "s", "t">> }

\* calls[i] sets, or removes, a header of a name equal to `name` ignoring
\* letter case.
C27_Sets(i, name) ==
    \/ calls[i].op = "header.set" /\ ToLower(calls[i].arg[1]) = ToLower(name)
    \/ calls[i].op = "content_type" /\ ToLower(S_Content_Type) = ToLower(name)

C27_Removes(i, name) ==
    calls[i].op = "header.remove" /\ ToLower(calls[i].arg) = ToLower(name)

\* What get(name) is to return after the calls made: the value of the last
\* set of the name when no remove of it came later, the empty string when
\* one did, and what the table held at first when the name was not touched.
C27_Expected(name) ==
    LET touches == {i \in 1..Len(calls) : C27_Sets(i, name) \/ C27_Removes(i, name)}
        last == CHOOSE i \in touches : \A k \in touches : k <= i
    IN  IF touches = {} THEN HeaderGet(NewResponse(peer).header, name)
        ELSE IF C27_Removes(last, name) THEN <<>>
        ELSE IF calls[last].op = "content_type" THEN calls[last].arg
        ELSE calls[last].arg[2]

\* A request that repeats a header name, in two letter cases, keeps the last
\* value only.
C27_RepeatedRequestHeader ==
    LET header == ParseHeaderLines(<< <<"G", "E", "T", " ", "/", " ", "H", "T", "T", "P", "/", "1", ".", "1">>, <<"X", "-", "T", "a", "g", ":", " ", "1">>, <<"H", "o", "s", "t", ":", " ", "a">>,
                                      <<"x", "-", "t", "a", "g", ":", " ", "2">> >>, 2, HeaderNew)
    IN  /\ HeaderGet(header, <<"X", "-", "T", "a", "g">>) = <<"2">>
        /\ DOMAIN header = { <<"x", "-", "t", "a", "g">>, <<"h", "o", "s", "t">> }

\* C27: after any sequence of set and remove calls on a header table,
\* get(name) is the value of the last set of a name equal to `name` ignoring
\* letter case, unless a remove of such a name came after it, and the empty
\* string otherwise; the table holds no two names that differ only in letter
\* case; a request that repeats a header name keeps the last value.
C27_LastSetWins ==
    /\ \A name \in C27_Names : HeaderGet(response.header, name) = C27_Expected(name)
    /\ \A k1, k2 \in DOMAIN response.header : ToLower(k1) = ToLower(k2) => k1 = k2
    /\ calls = <<>> => C27_RepeatedRequestHeader

\* X-Tag was set to 1, x-tag to 2, and X-TAG removed: get gives the empty
\* string and the table has no entry of the name.
C27_Witness ==
    /\ Len(calls) = 3
    /\ calls[1].op = "header.set" /\ calls[1].arg = << <<"X", "-", "T", "a", "g">>, <<"1">> >>
    /\ calls[2].op = "header.set" /\ calls[2].arg = << <<"x", "-", "t", "a", "g">>, <<"2">> >>
    /\ calls[3].op = "header.remove" /\ calls[3].arg = <<"X", "-", "T", "A", "G">>
    /\ HeaderGet(response.header, <<"X", "-", "T", "a", "g">>) = <<>>
    /\ <<"x", "-", "t", "a", "g">> \notin DOMAIN response.header

\* X-Tag was set to 1 and then x-tag to 2: get(X-TAG) gives 2, from the one
\* entry of the name.
C27_Overwritten ==
    /\ Len(calls) = 2
    /\ calls[1].op = "header.set" /\ calls[1].arg = << <<"X", "-", "T", "a", "g">>, <<"1">> >>
    /\ calls[2].op = "header.set" /\ calls[2].arg = << <<"x", "-", "t", "a", "g">>, <<"2">> >>
    /\ HeaderGet(response.header, <<"X", "-", "T", "A", "G">>) = <<"2">>
    /\ Cardinality({k \in DOMAIN response.header : ToLower(k) = <<"x", "-", "t", "a", "g">>}) = 1

-----------------------------------------------------------------------------
(* Claims about the connection loop, checked under Spec.  peer[j] is the   *)
(* j-th request the peer sent and jobs[j] the j-th worker_job call.        *)

\* The request carries Connection: keep-alive.
CarriesKeepAlive(q) == ToLower(q.connection) = S_keep_alive

\* The j-th request of the peer is a complete, well-formed request that
\* follows only such requests, each carrying Connection: keep-alive.
InSequence(j) ==
    /\ \A i \in 1..j : peer[i].kind = "request"
    /\ \A i \in 1..(j - 1) : CarriesKeepAlive(peer[i])

\* The call parsed the j-th request and invoked what it resolves to.
Dispatched(j) ==
    /\ jobs[j].parse = "Some"
    /\ jobs[j].url = peer[j].url
    /\ jobs[j].handler # NoHandler

\* The call put one response on the socket: one header block, beginning
\* with a status line, and what follows it.
Answered(j) ==
    /\ jobs[j].header_blocks = 1
    /\ StartsWith(jobs[j].wrote, S_HTTP_1_1 \o <<SP>>)
    /\ WireHeaderEnd(jobs[j].wrote) > 0

\* What the loop does after the j-th request: on keep-alive it goes on with
\* the socket open, otherwise this call is the last and the thread has left
\* the loop, the socket closed with it.
LoopDecision(j) ==
    IF CarriesKeepAlive(peer[j])
    THEN /\ jobs[j].ret = "Some"
         /\ ~jobs[j].shutdown
         /\ Len(jobs) = j => conn = "running"
    ELSE /\ jobs[j].ret = "None"
         /\ Len(jobs) = j
         /\ conn = "exited"

\* The loop's part of C9, without the answer: every request in sequence is
\* parsed and dispatched in its turn, the loop goes on after it exactly when
\* it carries keep-alive, and the thread does not leave the loop before.
C9_LoopFollowsConnectionHeader ==
    \A j \in 1..Len(peer) :
        InSequence(j) =>
            /\ Len(jobs) >= j => Dispatched(j) /\ LoopDecision(j)
            /\ conn = "exited" => Len(jobs) >= j

\* C9: on one connection the requests are served in sequence for as long as
\* each carries Connection: keep-alive, the socket staying open between
\* them; the first request that carries another Connection value or none is
\* answered, then the socket is closed and the loop ends.  Every request in
\* sequence is dispatched and answered in its turn, and the thread leaves the
\* loop only after the first request without keep-alive.
C9_KeepAliveLoop ==
    \A j \in 1..Len(peer) :
        InSequence(j) =>
            /\ Len(jobs) >= j => Dispatched(j) /\ Answered(j) /\ LoopDecision(j)
            /\ conn = "exited" => Len(jobs) >= j

\* A keep-alive request in sequence was dispatched to the static handler,
\* nothing was written for it, and the loop went on.
C9_Unanswered ==
    \E j \in 1..Len(jobs) :
        /\ j <= Len(peer)
        /\ InSequence(j)
        /\ Dispatched(j)
        /\ jobs[j].handler = "static"
        /\ jobs[j].handler_ret = "Err"
        /\ jobs[j].wrote = <<>>
        /\ jobs[j].ret = "Some"

\* Two keep-alive requests and a close request were all three answered, and
\* the thread left the loop after the third.
C9_ThreeServed ==
    /\ Len(peer) = 3
    /\ Len(jobs) = 3
    /\ InSequence(3)
    /\ CarriesKeepAlive(peer[2])
    /\ peer[3].connection = S_close
    /\ \A j \in 1..3 : Answered(j)
    /\ socket.header_blocks = 3
    /\ conn = "exited"

\* C10: a worker_job call that finds the stream at its end, with no byte to
\* read, at the first cycle or at a later one, gets Ok(None) from
\* parse_request and returns Ok(None); it invokes nothing and writes
\* nothing, and the thread leaves the loop by the Ok(None) arm, not by the
\* error arm.
C10_EmptyStreamEndsSilently ==
    \A j \in 1..Len(jobs) :
        jobs[j].unread = 0 =>
            /\ jobs[j].parse = "None"
            /\ jobs[j].ret = "None"
            /\ jobs[j].handler = NoHandler
            /\ jobs[j].wrote = <<>>
            /\ ~jobs[j].shutdown
            /\ j = Len(jobs)
            /\ conn = "exited"

\* After a keep-alive request was served, the next cycle found the stream
\* at its end.
C10_Witness ==
    /\ Len(jobs) >= 2
    /\ jobs[1].ret = "Some"
    /\ jobs[Len(jobs)].unread = 0
    /\ jobs[Len(jobs)].ret = "None"
    /\ conn = "exited"

\* The status line of the response the call wrote carries this code.
StatusLineCode(j, code) ==
    StartsWith(jobs[j].wrote, S_HTTP_1_1 \o <<SP>> \o DecString(code) \o <<SP>>)

\* C11: a request that was parsed and matches no endpoint and no static
\* target gets a 404 response: the call that served it wrote one header
\* block whose status line carries 404 and, finalized by end with no body,
\* nothing after it; the call returns (to continue the loop or to close the
\* connection) only with that response on the socket.  A request for a url
\* nothing is registered for is such a request.
C11_UnmatchedGets404 ==
    /\ \A j \in 1..Len(jobs) :
          jobs[j].parse = "Some" /\ jobs[j].handler = "not_found" =>
              /\ jobs[j].handler_ret = "Ok"
              /\ jobs[j].header_blocks = 1
              /\ StatusLineCode(j, 404)
              /\ WireHeaderEnd(jobs[j].wrote) = Len(jobs[j].wrote)
              /\ jobs[j].ret \in {"Some", "None"}
    /\ \A j \in 1..Len(jobs) :
          j <= Len(peer) /\ InSequence(j) /\ peer[j].url = URL_NOPE =>
              jobs[j].handler = "not_found"

\* An unmatched keep-alive request got its 404 and the loop went on; an
\* unmatched request without keep-alive got its 404 and the thread exited.
C11_Witness ==
    /\ Len(peer) >= 2
    /\ Len(jobs) = 2
    /\ InSequence(2)
    /\ peer[1].url = URL_NOPE /\ peer[2].url = URL_NOPE
    /\ jobs[1].ret = "Some" /\ StatusLineCode(1, 404)
    /\ jobs[2].ret = "None" /\ StatusLineCode(2, 404)
    /\ conn = "exited"

\* C22: a worker_job call whose parse_request fails (incomplete header,
\* invalid UTF-8, malformed request line) writes no byte to the socket,
\* invokes no handler and returns the error; it is the last call of the
\* thread, which leaves the socket as it was, without a further header block.
C22_ParseFailureEndsSilently ==
    \A j \in 1..Len(jobs) :
        jobs[j].parse = "Err" =>
            /\ jobs[j].wrote = <<>>
            /\ jobs[j].header_blocks = 0
            /\ jobs[j].handler = NoHandler
            /\ jobs[j].handler_ret = "none"
            /\ jobs[j].ret = "Err"
            /\ j = Len(jobs)
            /\ conn = "exited"

\* A request was served on the connection and the next one, whose header
\* is not UTF-8, ended the thread with nothing more written.
C22_Witness ==
    /\ Len(jobs) = 2
    /\ jobs[1].parse = "Some" /\ jobs[1].wrote # <<>> /\ jobs[1].ret = "Some"
    /\ jobs[2].parse = "Err" /\ jobs[2].err = "InvalidUtf8"
    /\ jobs[2].unread > 0
    /\ jobs[2].wrote = <<>>
    /\ conn = "exited"
    /\ socket.written = jobs[1].wrote

\* The request of jobs[j] matches no endpoint, and the target of its static
\* prefix is absent or is not a regular file.
StaticTargetNotServable(j) ==
    LET to == route(server.endpoints, server.static_paths, jobs[j].url, "GET")
    IN  /\ jobs[j].parse = "Some"
        /\ \E i \in 1..Len(server.static_paths) :
              StartsWith(jobs[j].url, server.static_paths[i].prefix)
        /\ to.handler # "endpoint"
        /\ to.handler = "static" => ~IsFile(to.file.file_path)

\* C24: a request that matches no endpoint and whose static target is absent
\* or is a directory gets a 404 response: the call that served it wrote one
\* header block whose status line carries 404.
C24_StaticFailureGets404 ==
    \A j \in 1..Len(jobs) :
        StaticTargetNotServable(j) =>
            /\ jobs[j].header_blocks = 1
            /\ StatusLineCode(j, 404)

\* The request for the static root, a directory, went to the static handler,
\* whose send_file failed, and the call wrote nothing at all.
C24_DirectoryUnanswered ==
    /\ Len(jobs) = 1
    /\ jobs[1].url = URL_PUBLIC
    /\ StaticTargetNotServable(1)
    /\ jobs[1].handler = "static"
    /\ jobs[1].handler_ret = "Err"
    /\ jobs[1].wrote = <<>>
    /\ jobs[1].header_blocks = 0

\* The request for a file the static root does not have got the 404.
C24_AbsentGets404 ==
    /\ Len(jobs) = 1
    /\ jobs[1].url = URL_PUBLIC_NOPE
    /\ StaticTargetNotServable(1)
    /\ jobs[1].handler = "not_found"
    /\ StatusLineCode(1, 404)

\* The handler of jobs[j] finalized its response: its last operation, an end
\* or a send, returned Ok.
Finalized(j) == jobs[j].parse = "Some" /\ jobs[j].handler_ret = "Ok"

\* C30: for every request whose handler finalized the response (no handler
\* here changes the response's Connection header), the socket was shut down
\* by the response if and only if worker_job returned Ok(None); and no
\* worker_job call is made on a socket a response has shut down.
C30_WriterAndLoopAgree ==
    \A j \in 1..Len(jobs) :
        /\ Finalized(j) => (jobs[j].shutdown <=> jobs[j].ret = "None")
        /\ j > 1 => ~jobs[j - 1].shutdown

\* A request with Connection: Keep-Alive was answered with the socket left
\* open and the loop served the next request; a request without keep-alive
\* was answered, the socket shut down and the loop left.
C30_Witness ==
    /\ Len(peer) = 2
    /\ Len(jobs) = 2
    /\ peer[1].connection = S_Keep_Alive
    /\ Finalized(1) /\ ~jobs[1].shutdown /\ jobs[1].ret = "Some"
    /\ ~CarriesKeepAlive(peer[2])
    /\ Finalized(2) /\ jobs[2].shutdown /\ jobs[2].ret = "None"
    /\ conn = "exited"

\* An iteration after which the loop goes on has taken at least one byte
\* from the stream.
ConsumesOrEnds == conn' = "running" => Len(stream') < Len(stream)

\* C31: the peer having sent finitely many bytes and closed its sending
\* side, every iteration of the connection loop takes at least one byte from
\* the stream or ends the loop, a worker_job call always returns, and the
\* thread, as long as it is scheduled, leaves the loop.
C31_ThreadTerminates ==
    /\ [][ConsumesOrEnds]_vars
    /\ [](conn = "running" => Job # {})
    /\ <>(conn = "exited")

\* Three keep-alive requests were served, the fourth parse found the stream
\* at its end, and the thread left the loop.
C31_Witness ==
    /\ Len(peer) = 3
    /\ \A i \in 1..3 : peer[i].kind = "request" /\ CarriesKeepAlive(peer[i])
    /\ Len(jobs) = 4
    /\ \A j \in 1..3 : jobs[j].ret = "Some"
    /\ jobs[4].parse = "None"
    /\ stream = <<>>
    /\ conn = "exited"

-----------------------------------------------------------------------------
(* Claims about concurrent connections, checked under SpecServer.          *)

\* The job histories of a connection served alone, from a socket nothing was
\* written to until its thread leaves the loop: one for each order in which
\* the header lines of its responses may be written.
RECURSIVE AloneFrom(_, _, _)
AloneFrom(sock, unread, log) ==
    UNION { IF r.ret = "Some"
            THEN AloneFrom(r.sock, r.unread, Append(log, JobRecord(sock, unread, r)))
            ELSE {Append(log, JobRecord(sock, unread, r))}
            : r \in worker_job(sock, unread, MainEndpoints, MainStaticPaths) }

Alone == [session \in ServerSessions |-> AloneFrom(NewSocket, SessionBytes(session), <<>>)]

IsPrefix(s, l) == Len(s) <= Len(l) /\ SubSeq(l, 1, Len(s)) = s

\* The thread's last worker_job call failed on a read of its reset socket.
EndedByReset(th) == th.jobs # <<>> /\ th.jobs[Len(th.jobs)].err = "Io"

\* The worker_job calls of the thread that were made on a working socket.
BeforeReset(th) ==
    IF EndedByReset(th) THEN SubSeq(th.jobs, 1, Len(th.jobs) - 1) ELSE th.jobs

\* The thread did what it does when its connection is the only one: what it
\* parsed, dispatched and wrote so far begins a history of the connection
\* served alone, and it left its loop only at the end of such a history or
\* on the reset of its own socket.
AsIfAlone(th) ==
    /\ \E l \in Alone[th.peer] : IsPrefix(BeforeReset(th), l)
    /\ th.socket.written = Concat([j \in 1..Len(th.jobs) |-> th.jobs[j].wrote])
    /\ th.conn = "exited" => (EndedByReset(th) \/ th.jobs \in Alone[th.peer])
    /\ th.conn = "running" => (th.jobs = <<>> \/ th.jobs[Len(th.jobs)].ret = "Some")

FailedThread(th) ==
    th.conn = "exited" /\ th.jobs # <<>> /\ th.jobs[Len(th.jobs)].ret = "Err"

-----------------------------------------------------------------------------
(* Claims about the router, checked under SpecRouter.  routed holds the    *)
(* last resolution: its method, its url and what route chose.              *)

\* The endpoints registered with this method and this url, by position.
EndpointsFor(method, url) ==
    {i \in 1..Len(server.endpoints) :
        server.endpoints[i].method = method /\ server.endpoints[i].url = url}

\* The target static path i gives for the url: its root with the url's
\* remainder after the prefix.
StaticTarget(i, url) ==
    PathPush(server.static_paths[i].path,
             SubSeq(url, Len(server.static_paths[i].prefix) + 1, Len(url)))

\* The static paths whose prefix starts the url and whose target exists.
StaticPathsFor(url) ==
    {i \in 1..Len(server.static_paths) :
        StartsWith(url, server.static_paths[i].prefix) /\ Exists(StaticTarget(i, url))}

Least(S) == CHOOSE i \in S : \A k \in S : i <= k

\* C12: when the request's (method, url) is that of a registered endpoint
\* and the url also has a static path whose target exists, the endpoint's
\* callback is what is invoked, not the static handler.
C12_EndpointBeforeStatic ==
    \A k \in 1..Len(routed) :
        EndpointsFor(routed[k].method, routed[k].url) # {}
                /\ StaticPathsFor(routed[k].url) # {} =>
            /\ routed[k].to.handler = "endpoint"
            /\ \E i \in EndpointsFor(routed[k].method, routed[k].url) :
                  routed[k].to.cb = server.endpoints[i].callback

\* GET /public/a.txt is an endpoint and an existing static file; the
\* endpoint was chosen.
C12_Witness ==
    /\ Len(routed) = 1
    /\ routed[1].url = URL_PUBLIC_A
    /\ EndpointsFor(routed[1].method, routed[1].url) # {}
    /\ StaticPathsFor(routed[1].url) # {}
    /\ routed[1].to.file.found
    /\ routed[1].to.handler = "endpoint"

\* C13: the resolver returns the callback of the first endpoint, in
\* registration order, whose method and url both equal the request's, and
\* none when no endpoint has both: of two registrations of the same (method,
\* url) the earlier is returned, and an endpoint with the url but another
\* method never is.
C13_FirstExactEndpoint ==
    \A k \in 1..Len(routed) :
        LET same == EndpointsFor(routed[k].method, routed[k].url)
        IN  routed[k].to.cb = IF same = {} THEN NoHandler
                              ELSE server.endpoints[Least(same)].callback

\* The same (method, url) was registered twice and the first registration
\* was returned.
C13_Witness ==
    /\ Len(routed) = 1
    /\ Cardinality(EndpointsFor(routed[1].method, routed[1].url)) = 2
    /\ routed[1].to.cb = CallbackNames[1]

\* The location of the path lies in the directory tree under the root.
Inside(path, root) ==
    /\ Resolve(path).found
    /\ Resolve(root).found
    /\ Len(Resolve(root).at) <= Len(Resolve(path).at)
    /\ SubSeq(Resolve(path).at, 1, Len(Resolve(root).at)) = Resolve(root).at

\* C14: the path get_static_file returns for a url lies inside the root of
\* the static path that matched it, also when the url's remainder after
\* the prefix has .. segments or begins with /.
C14_StaysInsideRoot ==
    \A k \in 1..Len(routed) :
        routed[k].to.file.found =>
            Inside(routed[k].to.file.file_path,
                   server.static_paths[Least(StaticPathsFor(routed[k].url))].path)

\* A url with a .. segment, and a url whose remainder begins with /, each
\* resolved to the file secret, outside the root public.
C14_Escapes ==
    /\ Len(routed) = 1
    /\ routed[1].url \in {URL_PUBLIC_UP, URL_PUBLIC_ABS}
    /\ routed[1].to.handler = "static"
    /\ Resolve(routed[1].to.file.file_path).at = Append(Cwd, <<"s", "e", "c", "r", "e", "t">>)

\* C15: get_static_file tries the static paths in registration order and
\* goes on to the next when a prefix matches but the target does not exist:
\* its result is the target of the first static path whose prefix matches
\* and whose target exists, and nothing only when there is no such path.
C15_FirstExistingStaticTarget ==
    \A k \in 1..Len(routed) :
        LET some == StaticPathsFor(routed[k].url)
        IN  /\ routed[k].to.file.found <=> some # {}
            /\ some # {} => routed[k].to.file.file_path = StaticTarget(Least(some), routed[k].url)

\* The first static path matched the url by prefix without an existing
\* target, and the target of the second was returned.
C15_Witness ==
    /\ Len(routed) = 1
    /\ Len(server.static_paths) = 2
    /\ StartsWith(routed[1].url, server.static_paths[1].prefix)
    /\ ~Exists(StaticTarget(1, routed[1].url))
    /\ routed[1].to.file.found
    /\ routed[1].to.file.file_path = StaticTarget(2, routed[1].url)

=============================================================================
